---- MODULE Spec2Model ----
(***************************************************************************)
(* A model of the graph generator: the S1 instruction runtime (main.cpp),  *)
(* the M1 model codec and scale transform (m1ModelFormat.cpp), the model   *)
(* fitter (GenericGraphReader.cpp, TSVReader.cpp) and the sampler          *)
(* (Generator.cpp).                                                        *)
(*                                                                         *)
(* Numbers.  A real value of the program (long double endpoint, float      *)
(* probability, double scale) is modelled by the exact rational it holds,  *)
(* a pair <<n, d>> in lowest terms.  A float operation rounds its exact    *)
(* result to a 24-bit mantissa (round to nearest, ties to even), as IEEE   *)
(* binary32 does; a long double product is exact for the magnitudes the    *)
(* bounds below allow (it fits the 64-bit mantissa).                       *)
(*                                                                         *)
(* Text.  A std::string is a sequence of one-character strings.            *)
(***************************************************************************)
EXTENDS Integers, Sequences, FiniteSets, TLC

(***************************************************************************)
(* Generic helpers on sequences and integers.                              *)
(***************************************************************************)
Max(a, b) == IF a >= b THEN a ELSE b

Min(a, b) == IF a <= b THEN a ELSE b

RECURSIVE GCD(_, _)
GCD(a, b) == IF b = 0 THEN a ELSE GCD(b, a % b)

RECURSIVE Pow2(_)
Pow2(k) == IF k = 0 THEN 1 ELSE 2 * Pow2(k - 1)

RECURSIVE Pow10(_)
Pow10(k) == IF k = 0 THEN 1 ELSE 10 * Pow10(k - 1)

\* The number of factors 2 of a positive integer.
RECURSIVE TwoAdic(_)
TwoAdic(n) == IF n % 2 = 1 THEN 0 ELSE 1 + TwoAdic(n \div 2)

\* The number of bits of a positive integer.
RECURSIVE BitLen(_)
BitLen(n) == IF n = 0 THEN 0 ELSE 1 + BitLen(n \div 2)

IsPow2(n) == n >= 1 /\ n = Pow2(TwoAdic(n))

RECURSIVE ConcatRange(_, _, _)
ConcatRange(ss, lo, hi) ==
    IF lo > hi THEN <<>>
    ELSE IF lo = hi THEN ss[lo]
    ELSE ConcatRange(ss, lo, (lo + hi) \div 2) \o ConcatRange(ss, ((lo + hi) \div 2) + 1, hi)

Concat(ss) == ConcatRange(ss, 1, Len(ss))

RECURSIVE SumSeq(_)
SumSeq(s) == IF s = <<>> THEN 0 ELSE Head(s) + SumSeq(Tail(s))

Range(s) == {s[i] : i \in DOMAIN s}

(***************************************************************************)
(* Exact rationals <<n, d>>, n >= 0, d >= 1, in lowest terms.              *)
(***************************************************************************)
Rat(n, d) == LET g == GCD(n, d) IN <<n \div g, d \div g>>

IntR(i) == <<i, 1>>

RMul(a, b) ==
    LET g1 == GCD(a[1], b[2])
        g2 == GCD(b[1], a[2])
    IN  Rat((a[1] \div g1) * (b[1] \div g2), (a[2] \div g2) * (b[2] \div g1))

RLess(a, b) == a[1] * b[2] < b[1] * a[2]

RLeq(a, b) == a[1] * b[2] <= b[1] * a[2]

\* static_cast<NodeID>(x) of a non-negative value: truncation.
Floor(a) == a[1] \div a[2]

IsDyadic(a) == IsPow2(a[2])

(***************************************************************************)
(* IEEE binary32 rounding.  FloatMantBits is the width of the mantissa of  *)
(* Probability (std::float_t) and of the float scale factor.               *)
(***************************************************************************)
FloatMantBits == 24

\* m * 2^e as a rational (m >= 0, e any integer).
Dyadic(m, e) ==
    IF m = 0 THEN <<0, 1>>
    ELSE LET z == TwoAdic(m)
             mo == m \div Pow2(z)
             ee == e + z
         IN  IF ee >= 0 THEN <<mo * Pow2(ee), 1>> ELSE <<mo, Pow2(-ee)>>

\* The odd mantissa and the exponent of a dyadic rational: a = m * 2^e.
OddPart(a) == a[1] \div Pow2(TwoAdic(a[1]))

ExpPart(a) == IF a[2] = 1 THEN TwoAdic(a[1]) ELSE -TwoAdic(a[2])

\* The next bits of the binary expansion of r / D (0 <= r < D): after k more
\* steps, <<mantissa, remainder>>.
RECURSIVE DivBits(_, _, _, _)
DivBits(m, r, D, k) ==
    IF k = 0 THEN <<m, r>>
    ELSE IF 2 * r >= D THEN DivBits(2 * m + 1, 2 * r - D, D, k - 1)
                       ELSE DivBits(2 * m, 2 * r, D, k - 1)

\* Round to nearest, ties to even: mantissa m with remainder r out of D.
RoundEven(m, r, D) ==
    IF 2 * r > D \/ (2 * r = D /\ m % 2 = 1) THEN m + 1 ELSE m

\* The k with d * 2^k <= n < d * 2^(k+1), which is k0 or k0 - 1 for k0 the
\* difference of the bit lengths of n and d.
QuotExp(n, d, k0) ==
    IF k0 >= 0 THEN (IF n >= d * Pow2(k0) THEN k0 ELSE k0 - 1)
    ELSE (IF n * Pow2(-k0) >= d THEN k0 ELSE k0 - 1)

\* The 24-bit mantissa of N / D (D <= N < 2 D), rounded, times 2^e.
RoundMant(N, D, e) ==
    LET Rounded(mr) == Dyadic(RoundEven(mr[1], mr[2], D), e)
    IN  Rounded(DivBits(1, N - D, D, FloatMantBits - 1))

RoundQuotAt(n, d, e, k) ==
    RoundMant(IF k >= 0 THEN n ELSE n * Pow2(-k), IF k >= 0 THEN d * Pow2(k) ELSE d,
              k - (FloatMantBits - 1) + e)

\* The binary32 value nearest to (n / d) * 2^e, for n, d >= 1.
RoundQuot(n, d, e) == RoundQuotAt(n, d, e, QuotExp(n, d, BitLen(n) - BitLen(d)))

\* static_cast<float>(x) / stof: the binary32 value nearest to a rational.
ToFloat(a) ==
    IF a[1] = 0 THEN <<0, 1>>
    ELSE LET zn == TwoAdic(a[1])
             zd == TwoAdic(a[2])
         IN  RoundQuot(a[1] \div Pow2(zn), a[2] \div Pow2(zd), zn - zd)

\* float / float.
FDiv(a, b) ==
    IF a[1] = 0 THEN <<0, 1>>
    ELSE LET g1 == GCD(a[1], b[1])
             g2 == GCD(a[2], b[2])
         IN  ToFloat(<<(a[1] \div g1) * (b[2] \div g2), (a[2] \div g2) * (b[1] \div g1)>>)

\* float * float.  The 48-bit product of two 24-bit mantissas is formed in
\* 12-bit limbs (H * 2^24 + L) and rounded to 24 bits.
FMulRound(H, L, e, h) ==
    IF H = 0 THEN Dyadic(L, e)
    ELSE Dyadic(RoundEven(H * Pow2(FloatMantBits - h) + (L \div Pow2(h)), L % Pow2(h), Pow2(h)),
                e + h)

FMulHigh(H, L, e) == FMulRound(H, L, e, BitLen(H))

FMulLow(hi, mid, low, e) ==
    FMulHigh(hi + (mid \div 4096) + (low \div 16777216), low % 16777216, e)

FMulLimbs(a1, a0, b1, b0, e) ==
    LET Mid(mid) == FMulLow(a1 * b1, mid, a0 * b0 + (mid % 4096) * 4096, e)
    IN  Mid(a1 * b0 + a0 * b1)

FMulMant(ma, mb, e) == FMulLimbs(ma \div 4096, ma % 4096, mb \div 4096, mb % 4096, e)

FMul(a, b) ==
    IF a[1] = 0 \/ b[1] = 0 THEN <<0, 1>>
    ELSE FMulMant(OddPart(a), OddPart(b), ExpPart(a) + ExpPart(b))

(***************************************************************************)
(* Text: characters, their codes (for std::string order), digits.          *)
(***************************************************************************)
Digits == <<"0", "1", "2", "3", "4", "5", "6", "7", "8", "9">>

IsDigit(c) == c \in Range(Digits)

DigitVal(c) == CHOOSE i \in 0..9 : Digits[i + 1] = c

\* The characters the model's texts are made of, in ASCII order.
Alphabet ==
    <<"\t", "\n", "\r", " ", "\"", "#", "+", ",", "-", ".", "/",
      "0", "1", "2", "3", "4", "5", "6", "7", "8", "9", "=",
      "A", "B", "C", "D", "E", "F", "G", "H", "I", "J", "K", "L", "M",
      "N", "O", "P", "Q", "R", "S", "T", "U", "V", "W", "X", "Y", "Z", "_",
      "a", "b", "c", "d", "e", "f", "g", "h", "i", "j", "k", "l", "m",
      "n", "o", "p", "q", "r", "s", "t", "u", "v", "w", "x", "y", "z">>

CharCode(c) == CHOOSE i \in DOMAIN Alphabet : Alphabet[i] = c

\* std::string operator<: lexicographic on character codes.
RECURSIVE StrLess(_, _)
StrLess(s, t) ==
    LET Codes(a, b) == IF a # b THEN a < b ELSE StrLess(Tail(s), Tail(t))
    IN  IF t = <<>> THEN FALSE
        ELSE IF s = <<>> THEN TRUE
        ELSE Codes(CharCode(Head(s)), CharCode(Head(t)))

\* The decimal digits of a natural number (std::to_string of an integer).
RECURSIVE NatToStr(_)
NatToStr(n) ==
    IF n < 10 THEN <<Digits[n + 1]>>
    ELSE NatToStr(n \div 10) \o <<Digits[(n % 10) + 1]>>

\* n as exactly k digits, zero padded.
RECURSIVE PadDigits(_, _)
PadDigits(n, k) ==
    IF k = 0 THEN <<>> ELSE PadDigits(n \div 10, k - 1) \o <<Digits[(n % 10) + 1]>>

\* The first index >= from at which c occurs in s, or 0 (std::string::find).
RECURSIVE FindChar(_, _, _)
FindChar(s, c, from) ==
    IF from > Len(s) THEN 0
    ELSE IF s[from] = c THEN from
    ELSE FindChar(s, c, from + 1)

\* The last index at which c occurs in s, or 0.
RECURSIVE RFindChar(_, _, _)
RFindChar(s, c, from) ==
    IF from < 1 THEN 0
    ELSE IF s[from] = c THEN from
    ELSE RFindChar(s, c, from - 1)


\* s without its first n characters.
DropFirst(s, n) == SubSeq(s, n + 1, Len(s))

StartsWith(s, p) == Len(s) >= Len(p) /\ SubSeq(s, 1, Len(p)) = p

\* The strings of s split at every c, as std::getline(stream, item, c) reads
\* them one after another: no item follows a final c.
RECURSIVE SplitOn(_, _)
SplitOn(s, c) ==
    IF s = <<>> THEN <<>>
    ELSE LET i == FindChar(s, c, 1)
         IN  IF i = 0 THEN <<s>>
             ELSE <<SubSeq(s, 1, i - 1)>> \o SplitOn(DropFirst(s, i), c)

(***************************************************************************)
(* Number <-> text.                                                        *)
(***************************************************************************)
\* k more decimal digits of r / d (0 <= r < d): <<digits as a number, remainder>>.
RECURSIVE DecDigits(_, _, _, _)
DecDigits(acc, r, d, k) ==
    IF k = 0 THEN <<acc, r>>
    ELSE DecDigits(10 * acc + ((10 * r) \div d), (10 * r) % d, d, k - 1)

\* std::to_string of a floating-point value: printf "%f", six decimals,
\* the exact value rounded to nearest, ties to even.
ToStringF(a) ==
    LET Text(ip, mi) ==
            IF mi = 1000000
              THEN NatToStr(ip + 1) \o <<".">> \o PadDigits(0, 6)
              ELSE NatToStr(ip) \o <<".">> \o PadDigits(mi, 6)
        Rounded(fr) == Text(a[1] \div a[2], RoundEven(fr[1], fr[2], a[2]))
    IN  Rounded(DecDigits(0, a[1] % a[2], a[2], 6))

\* The length of the longest prefix of s made of digits.
RECURSIVE DigitRun(_)
DigitRun(s) ==
    IF s = <<>> \/ ~IsDigit(Head(s)) THEN 0 ELSE 1 + DigitRun(Tail(s))

RECURSIVE DigitsVal(_, _)
DigitsVal(s, acc) ==
    IF s = <<>> THEN acc ELSE DigitsVal(Tail(s), 10 * acc + DigitVal(Head(s)))

\* strtold / strtof on a text without sign, exponent or leading blanks: the
\* longest prefix digits[.digits] is converted and the rest is ignored; with
\* no digit at all there is no conversion (std::invalid_argument).
\* [ok, val]: val is the exact decimal value read.
ParseDecimal(s) ==
    LET Value(idigits, fdigits) ==
            IF Len(idigits) + Len(fdigits) = 0 THEN [ok |-> FALSE, val |-> <<0, 1>>]
            ELSE [ok |-> TRUE,
                  val |-> Rat(DigitsVal(idigits, 0) * Pow10(Len(fdigits)) + DigitsVal(fdigits, 0),
                              Pow10(Len(fdigits)))]
        Fraction(rest) ==
            IF rest # <<>> /\ Head(rest) = "." THEN SubSeq(Tail(rest), 1, DigitRun(Tail(rest)))
            ELSE <<>>
        Split(n1) == Value(SubSeq(s, 1, n1), Fraction(DropFirst(s, n1)))
    IN  Split(DigitRun(s))

\* std::stold: the long double nearest to the decimal read.  Every value of
\* the model that a text holds fits the 64-bit mantissa or is kept as the
\* exact decimal (it differs from the long double by less than 2^-64 of it).
Stold(s) == ParseDecimal(s)

\* std::stof: the float nearest to the decimal read.
Stof(s) ==
    LET Rounded(r) == [ok |-> r.ok, val |-> IF r.ok THEN ToFloat(r.val) ELSE <<0, 1>>]
    IN  Rounded(ParseDecimal(s))

(***************************************************************************)
(* The M1 model (m1ModelFormat.cpp): Meta_Record, Node_Record, Edge_Block, *)
(* Edge_Record, m1_data.  A std::map is a function on its set of keys.     *)
(***************************************************************************)
EmptyMap == <<>>

MapContains(m, k) == k \in DOMAIN m

\* std::map::operator[] as an assignment.
MapSet(m, k, v) == [x \in (DOMAIN m) \cup {k} |-> IF x = k THEN v ELSE m[x]]

\* The keys of a std::map in its iteration order (ascending).
RECURSIVE SortedKeys(_)
SortedKeys(ks) ==
    IF ks = {} THEN <<>>
    ELSE LET From(k) == <<k>> \o SortedKeys(ks \ {k})
         IN  From(CHOOSE x \in ks : \A y \in ks \ {x} : StrLess(x, y))

Meta_Record(name, values) == [name |-> name, values |-> values]

Node_Record(startID, endID, node_type) ==
    [startID |-> startID, endID |-> endID, node_type |-> node_type]

Edge_Block(startX, endX, startY, endY, p) ==
    [startX |-> startX, endX |-> endX, startY |-> startY, endY |-> endY,
     expression_probability |-> p]

Edge_Record(edge_type, blocks) == [edge_type |-> edge_type, blocks |-> blocks]

\* m1_data result = {}
EmptyM1 == [meta |-> Meta_Record(<<>>, EmptyMap), nodes |-> <<>>, edges |-> <<>>]

KeySCALE == <<"S", "C", "A", "L", "E">>

KeyNAME == <<"N", "A", "M", "E">>


(***************************************************************************)
(* scale_m1_data (m1ModelFormat.cpp).  The argument is passed by non-const *)
(* reference: the value returned holds the new model (result) and the      *)
(* argument as the call leaves it (data).                                  *)
(***************************************************************************)
\* A scaling that does not clamp the probability.
ScaleBlockUnclamped(b, scale) ==
    Edge_Block(RMul(b.startX, scale), RMul(b.endX, scale),
               RMul(b.startY, scale), RMul(b.endY, scale),
               FDiv(b.expression_probability, scale))

\* for (auto [..]: blocks): one scaled block.  The endpoints are long double:
\* the product with the float factor is exact as long as it has at most 64
\* significant bits, which the endpoints of the model's runs stay far below.
ScaleBlock(b, scale) ==
    LET Clamped(adapted_probability) ==
            IF RLess(<<1, 1>>, adapted_probability) THEN <<1, 1>> ELSE adapted_probability
    IN  Edge_Block(RMul(b.startX, scale), RMul(b.endX, scale),
                   RMul(b.startY, scale), RMul(b.endY, scale),
                   Clamped(FDiv(b.expression_probability, scale)))

ScaleEdgeRecord(r, scale) ==
    Edge_Record(r.edge_type, [i \in DOMAIN r.blocks |-> ScaleBlock(r.blocks[i], scale)])

\* A scaling that keeps the whole part of a node endpoint only.
ScaleNodeRecordTruncated(n, scale) ==
    Node_Record(IntR(Floor(RMul(n.startID, scale))), IntR(Floor(RMul(n.endID, scale))),
                n.node_type)

\* A scaling that leaves the start of a node record where it was.
ScaleNodeRecordEndOnly(n, scale) ==
    Node_Record(n.startID, RMul(n.endID, scale), n.node_type)

ScaleNodeRecord(n, scale) ==
    Node_Record(RMul(n.startID, scale), RMul(n.endID, scale), n.node_type)

\* double old_scale: 1.0, or stof of the SCALE value when it converts.
OldScale(values) ==
    LET Converted(r) == IF r.ok THEN r.val ELSE <<1, 1>>
    IN  IF MapContains(values, KeySCALE) THEN Converted(Stof(values[KeySCALE])) ELSE <<1, 1>>

scale_m1_data(data, scale) ==
    IF scale = <<0, 1>>
      THEN [ok |-> FALSE, result |-> EmptyM1, data |-> data]
      ELSE [ok |-> TRUE,
            result |->
              [meta |-> Meta_Record(data.meta.name,
                          MapSet(data.meta.values, KeySCALE,
                                 ToStringF(RMul(OldScale(data.meta.values), scale)))),
               nodes |-> [i \in DOMAIN data.nodes |-> ScaleNodeRecord(data.nodes[i], scale)],
               edges |-> [i \in DOMAIN data.edges |-> ScaleEdgeRecord(data.edges[i], scale)]],
            \* data.meta.values["SCALE"] is read only under contains("SCALE"):
            \* operator[] inserts nothing.
            data |-> data]

(***************************************************************************)
(* write_m1_file (m1ModelFormat.cpp): the text written, and whether the    *)
(* call returned (ok) or threw; a throw leaves the text written so far.    *)
(***************************************************************************)
NL == <<"\n">>

HasChar(s, c) == FindChar(s, c, 1) # 0

RECURSIVE WriteMetaValues(_, _)
WriteMetaValues(keys, values) ==
    IF keys = <<>> THEN [ok |-> TRUE, text |-> <<>>]
    ELSE LET key == Head(keys)
             value == values[key]
         IN  IF HasChar(key, "=") \/ HasChar(key, "\n") \/ HasChar(value, "\n")
               THEN [ok |-> FALSE, text |-> <<>>]
               ELSE LET rest == WriteMetaValues(Tail(keys), values)
                    IN  [ok |-> rest.ok, text |-> key \o <<"=">> \o value \o NL \o rest.text]

RECURSIVE WriteNodes(_)
WriteNodes(nodes) ==
    IF nodes = <<>> THEN [ok |-> TRUE, text |-> <<>>]
    ELSE LET n == Head(nodes)
         IN  IF HasChar(n.node_type, "\n")
               THEN [ok |-> FALSE, text |-> <<>>]
               ELSE LET rest == WriteNodes(Tail(nodes))
                    IN  [ok |-> rest.ok,
                         text |-> ToStringF(n.startID) \o <<",">> \o ToStringF(n.endID)
                                  \o <<",">> \o n.node_type \o NL \o rest.text]

RECURSIVE WriteBlocks(_)
WriteBlocks(blocks) ==
    IF blocks = <<>> THEN <<>>
    ELSE LET b == Head(blocks)
         IN  ToStringF(b.startX) \o <<",">> \o ToStringF(b.endX) \o <<",">>
             \o ToStringF(b.startY) \o <<",">> \o ToStringF(b.endY) \o <<",">>
             \o ToStringF(b.expression_probability) \o NL \o WriteBlocks(Tail(blocks))

RECURSIVE WriteEdges(_)
WriteEdges(edges) ==
    IF edges = <<>> THEN [ok |-> TRUE, text |-> <<>>]
    ELSE LET e == Head(edges)
         IN  IF HasChar(e.edge_type, "\n")
               THEN [ok |-> FALSE, text |-> <<>>]
               ELSE LET rest == WriteEdges(Tail(edges))
                    IN  [ok |-> rest.ok,
                         text |-> <<"#", " ", "E", "D", "G", "E", "S", "=">> \o e.edge_type \o NL
                                  \o WriteBlocks(e.blocks) \o NL \o rest.text]

\* The text of the file for a path that can be opened.
write_m1_file(data) ==
    LET Sections(head, nodes, edges) ==
            IF ~nodes.ok THEN [ok |-> FALSE, text |-> head \o nodes.text]
            ELSE [ok |-> edges.ok, text |-> head \o nodes.text \o NL \o edges.text]
        Meta(meta) ==
            IF ~meta.ok
              THEN [ok |-> FALSE,
                    text |-> <<"#", " ", "M", "E", "T", "A">> \o NL
                             \o KeyNAME \o <<"=">> \o data.meta.name \o NL \o meta.text]
              ELSE Sections(<<"#", " ", "M", "E", "T", "A">> \o NL
                            \o KeyNAME \o <<"=">> \o data.meta.name \o NL \o meta.text
                            \o NL \o <<"#", " ", "N", "O", "D", "E", "S">> \o NL,
                            WriteNodes(data.nodes), WriteEdges(data.edges))
    IN  Meta(WriteMetaValues(SortedKeys(DOMAIN data.meta.values), data.meta.values))


(***************************************************************************)
(* read_m1_file (m1ModelFormat.cpp), on the text of a file that opened.    *)
(***************************************************************************)
\* The fields of a line as successive std::getline(ss, field, c) calls read
\* them: the first k - 1 up to a delimiter c, the k-th to the end of the line.
\* A field the stream has nothing left for stays empty.
RECURSIVE Fields(_, _, _)
Fields(line, c, k) ==
    IF k = 0 THEN <<>>
    ELSE IF k = 1 THEN <<line>>
    ELSE LET i == FindChar(line, c, 1)
         IN  IF i = 0 THEN <<line>> \o [j \in 1..(k - 1) |-> <<>>]
             ELSE <<SubSeq(line, 1, i - 1)>> \o Fields(DropFirst(line, i), c, k - 1)

ReadInit ==
    [mode |-> "NONE", has_meta |-> FALSE, has_node |-> FALSE, has_edges |-> FALSE,
     current_edge_type |-> <<>>, current_blocks |-> <<>>, result |-> EmptyM1,
     failed |-> FALSE]

\* if (line.starts_with('#')) { ... continue; }
ReadDirective(st, line) ==
    IF StartsWith(line, <<"#", " ", "M", "E", "T", "A">>) THEN [st EXCEPT !.mode = "META"]
    ELSE IF StartsWith(line, <<"#", " ", "N", "O", "D", "E", "S">>) THEN [st EXCEPT !.mode = "NODES"]
    ELSE IF StartsWith(line, <<"#", " ", "E", "D", "G", "E", "S">>)
      THEN LET flushed ==
                 IF st.current_blocks # <<>>
                   THEN [st EXCEPT !.result.edges =
                                      Append(@, Edge_Record(st.current_edge_type, st.current_blocks)),
                                   !.has_edges = TRUE]
                   ELSE st
           IN  [flushed EXCEPT !.mode = "EDGES",
                               \* line.substr(line.find('=') + 1); npos + 1 = 0
                               !.current_edge_type = DropFirst(line, FindChar(line, "=", 1)),
                               !.current_blocks = <<>>]
    ELSE [st EXCEPT !.failed = TRUE]

ReadMetaLine(st, line) ==
    LET Pair(key, value) ==
            IF key = <<>> \/ value = <<>> THEN st
            ELSE IF key = KeyNAME
              THEN [st EXCEPT !.result.meta.name = value, !.has_meta = TRUE]
              ELSE [st EXCEPT !.result.meta.values = MapSet(@, key, value)]
        Split(f) == Pair(f[1], f[2])
    IN  Split(Fields(line, "=", 2))

\* A reader for which a node row that does not convert counts as a node row.
ReadNodesLineCounting(st, line) ==
    LET Converted(startID, endID, node_type) ==
            IF ~startID.ok \/ ~endID.ok THEN [st EXCEPT !.has_node = TRUE]
            ELSE [st EXCEPT !.result.nodes =
                              Append(@, Node_Record(startID.val, endID.val, node_type)),
                            !.has_node = TRUE]
        Split(f) ==
            IF f[1] = <<>> \/ f[2] = <<>> \/ f[3] = <<>> THEN st
            ELSE Converted(Stold(f[1]), Stold(f[2]), f[3])
    IN  Split(Fields(line, ",", 3))

ReadNodesLine(st, line) ==
    LET Converted(startID, endID, node_type) ==
            IF ~startID.ok \/ ~endID.ok THEN st
            ELSE [st EXCEPT !.result.nodes =
                              Append(@, Node_Record(startID.val, endID.val, node_type)),
                            !.has_node = TRUE]
        Split(f) ==
            IF f[1] = <<>> \/ f[2] = <<>> \/ f[3] = <<>> THEN st
            ELSE Converted(Stold(f[1]), Stold(f[2]), f[3])
    IN  Split(Fields(line, ",", 3))

ReadEdgesLine(st, line) ==
    LET Converted(startX, endX, startY, endY, prob) ==
            IF ~startX.ok \/ ~endX.ok \/ ~startY.ok \/ ~endY.ok THEN st
            ELSE IF ~prob.ok THEN st
            ELSE [st EXCEPT !.current_blocks =
                              Append(@, Edge_Block(startX.val, endX.val, startY.val, endY.val,
                                                   prob.val))]
        Split(f) ==
            IF \E i \in 1..5 : f[i] = <<>> THEN st
            ELSE Converted(Stold(f[1]), Stold(f[2]), Stold(f[3]), Stold(f[4]), Stof(f[5]))
    IN  Split(Fields(line, ",", 5))

\* One turn of while (std::getline(file, line)).
ReadLine(st, raw) ==
    LET Line(line) ==
            IF line = <<>> THEN st
            ELSE IF Head(line) = "#" THEN ReadDirective(st, line)
            ELSE IF st.mode = "NONE" THEN [st EXCEPT !.failed = TRUE]
            ELSE IF st.mode = "META" THEN ReadMetaLine(st, line)
            ELSE IF st.mode = "NODES" THEN ReadNodesLine(st, line)
            ELSE ReadEdgesLine(st, line)
    IN  Line(IF raw # <<>> /\ raw[Len(raw)] = "\r" THEN SubSeq(raw, 1, Len(raw) - 1) ELSE raw)

RECURSIVE ReadLines(_, _)
ReadLines(st, lines) ==
    IF lines = <<>> \/ st.failed THEN st
    ELSE ReadLines(ReadLine(st, Head(lines)), Tail(lines))

\* [ok, data]: ok is FALSE when the call throws.
read_m1_file(text) ==
    LET Checked(fin) ==
            IF fin.failed \/ ~fin.has_meta \/ ~fin.has_node \/ ~fin.has_edges
              THEN [ok |-> FALSE, data |-> EmptyM1]
              ELSE [ok |-> TRUE, data |-> fin.result]
        Flushed(st) ==
            Checked(IF st.current_blocks # <<>>
                      THEN [st EXCEPT !.result.edges =
                                         Append(@, Edge_Record(st.current_edge_type,
                                                               st.current_blocks)),
                                      !.has_edges = TRUE]
                      ELSE st)
    IN  Flushed(ReadLines(ReadInit, SplitOn(text, "\n")))


(***************************************************************************)
(* Pseudo-random numbers.  std::mt19937_64 is modelled by a small linear   *)
(* congruential generator on 0 .. RngMod - 1: what the program relies on   *)
(* is kept (a generator is a deterministic function of its seed; seeding   *)
(* differs from stepping), its statistics are not.                         *)
(***************************************************************************)
RngMod == 16

\* std::mt19937_64 g(seed) / g.seed(seed): the state after seeding.
RngSeeded(seed) == (7 * seed + 1) % RngMod

\* g(): [val, state] - the value drawn and the state after the draw.
RngDraw(state) ==
    LET nxt == (5 * state + 3) % RngMod IN [val |-> nxt, state |-> nxt]

(***************************************************************************)
(* The sampler (Generator.cpp).                                            *)
(***************************************************************************)
MAX_ALLOWED_TYPE_LENGTH == 64

MAX_BUFFER_SIZE == 100000

MAX_BUFFER_SAFETY_MARGIN == 500

\* The value an unsigned size_t wraps to below 0.  It stands for 2^64 - 1;
\* no count of the model comes near it.
SizeMax == 2147483647

\* x - 1 in size_t.
SizeDec(x) == IF x = 0 THEN SizeMax ELSE x - 1

\* x + y in an unsigned integer of 64 bits.
SizeAdd(x, y) == IF y > SizeMax - x THEN (y - (SizeMax - x)) - 1 ELSE x + y

\* A conversion that starts at the integer part itself.
convert_start_of_block_at(x) == Floor(x)

convert_start_of_block(x) == Floor(x) + 1

convert_end_of_block(x) == Floor(x)

\* using Record = std::tuple<NodeID, NodeID, NodeID, NodeID, Probability>
Record(startX, endX, startY, endY, prob) ==
    [startX |-> startX, endX |-> endX, startY |-> startY, endY |-> endY, prob |-> prob]

\* The conversion of one block, before the degenerate ones are dropped.
ConvertBlock(b) ==
    Record(convert_start_of_block(b.startX), convert_end_of_block(b.endX),
           convert_start_of_block(b.startY), convert_end_of_block(b.endY),
           IF RLess(<<1, 1>>, b.expression_probability)
             THEN <<1, 1>> ELSE b.expression_probability)

Degenerate(rec) == rec.endX < rec.startX \/ rec.endY < rec.startY

ConvertBlocks(blocks) ==
    SelectSeq([i \in 1..Len(blocks) |-> ConvertBlock(blocks[i])], LAMBDA rec : ~Degenerate(rec))

\* [ok, res]: ok is FALSE when the call throws (edge-type too long).
read_edge_block_data(data) ==
    IF Len(data.edge_type) > MAX_ALLOWED_TYPE_LENGTH
      THEN [ok |-> FALSE, res |-> <<>>]
      ELSE [ok |-> TRUE, res |-> ConvertBlocks(data.blocks)]

\* The bound of the number of gap values the model draws for 0 < p < 1.
GapSpread == 2

\* 1 - prob rounds to 1.0f exactly when prob <= 2^-25: then log(1 - prob) is
\* 0, the denominator is infinite and the product -inf is cast to int, which
\* is undefined.
GapUndefined(prob) == prob[1] <= prob[2] \div 33554432

\* jump_distance = 1 + (int) ceil(log2(U) * devroye_denominator), for the draw
\* u of the worker's generator.  prob = 1: the denominator is -0 and the gap
\* is 1.  2^-25 < prob < 1: log2(U) < 0 and the denominator < 0, the product
\* is positive and its ceiling is at least 1; which value it takes is a
\* function of the draw.
JumpDistance(prob, u) ==
    IF prob = <<1, 1>> THEN 1 ELSE 2 + (u % GapSpread)

\* The bytes of one row in the worker's buffer.
RowBytes(x, y, e_type) == Len(NatToStr(x)) + 1 + Len(NatToStr(y)) + 1 + Len(e_type) + 1

\* The state of one call of multithread_generate_graph between two blocks:
\*   idx, workload_end  the block loop,
\*   rdm_gen            the worker's generator,
\*   buffer, buffer_pos the rows in the buffer and their bytes,
\*   written            the rows this step flushed to the output stream,
\*   ub                 undefined behaviour has occurred,
\*   peak               history: the highest buffer_pos so far.
WorkerInit(workload_start, workload_end, seed) ==
    [idx |-> workload_start, workload_end |-> workload_end, rdm_gen |-> RngSeeded(seed),
     buffer |-> <<>>, buffer_pos |-> 0, written |-> <<>>, ub |-> FALSE, peak |-> 0]

\* A buffer that is written only when no byte of it is left.
BufferRowToTheEnd(w, row, pos) ==
    IF pos >= MAX_BUFFER_SIZE - 1
      THEN [w EXCEPT !.written = @ \o w.buffer \o <<row>>, !.buffer = <<>>, !.buffer_pos = 0,
                     !.peak = Max(@, pos)]
      ELSE [w EXCEPT !.buffer = Append(@, row), !.buffer_pos = pos, !.peak = Max(@, pos)]

\* A row is put in the buffer, which is at buffer_pos = pos after it; a
\* buffer that is close to full is written to the output and reset.
BufferRow(w, row, pos) ==
    IF pos >= MAX_BUFFER_SIZE - MAX_BUFFER_SAFETY_MARGIN - 1
      THEN [w EXCEPT !.written = @ \o w.buffer \o <<row>>, !.buffer = <<>>, !.buffer_pos = 0,
                     !.peak = Max(@, pos)]
      ELSE [w EXCEPT !.buffer = Append(@, row), !.buffer_pos = pos, !.peak = Max(@, pos)]

\* The loop over one block at (offset_x, idx_y); done: the loop was left.
PickAt(w, offset_x, idx_y) == [w |-> w, offset_x |-> offset_x, idx_y |-> idx_y, done |-> FALSE]

\* One turn of while (true) { ... }: a draw, the jump, and the row unless
\* the jump leaves the block.
PickStep(p, rec, e_type) ==
    IF rec.prob # <<1, 1>> /\ GapUndefined(rec.prob)
      THEN [p EXCEPT !.w.ub = TRUE, !.done = TRUE]
    ELSE
    LET At(w1, off, y) ==
            IF y > rec.endY THEN [w |-> w1, offset_x |-> off, idx_y |-> y, done |-> TRUE]
            ELSE PickAt(BufferRow(w1, <<rec.startX + off, y, e_type>>,
                                  w1.buffer_pos + RowBytes(rec.startX + off, y, e_type)),
                        off, y)
        Jump(d, len_x, next_offset) ==
            At([p.w EXCEPT !.rdm_gen = d.state], next_offset % len_x,
               SizeAdd(p.idx_y, next_offset \div len_x))
        Draw(d) ==
            Jump(d, (rec.endX - rec.startX) + 1, p.offset_x + JumpDistance(rec.prob, d.val))
    IN  Draw(RngDraw(p.w.rdm_gen))

\* At most n turns of the loop.  The turns are split in halves, which keeps
\* the evaluation shallow for blocks of many cells.
RECURSIVE PickTurns(_, _, _, _)
PickTurns(p, rec, e_type, n) ==
    IF n = 0 \/ p.done THEN p
    ELSE IF n = 1 THEN PickStep(p, rec, e_type)
    ELSE LET Rest(half) ==
                 \* the test has the first half evaluated before the second starts
                 IF half.done \in BOOLEAN THEN PickTurns(half, rec, e_type, n - (n \div 2))
                 ELSE half
         IN  Rest(PickTurns(p, rec, e_type, n \div 2))

\* while (true) { ... } over one block, from (offset_x, idx_y): every jump
\* is of one cell at least, so the loop over a block that ends below the
\* last id is left within one turn per cell that remains and one more.
PickEdges(w, rec, e_type, offset_x, idx_y) ==
    PickTurns(PickAt(w, offset_x, idx_y), rec, e_type,
              ((rec.endY - idx_y) + 1) * ((rec.endX - rec.startX) + 1) + 1).w

WorkerRunning(w) == ~w.ub /\ w.idx <= w.workload_end

\* One turn of the loop over the blocks; data[idx] with idx >= data.size()
\* reads outside the vector.
WorkerBlock(w, data, e_type) ==
    IF w.idx >= Len(data) THEN [w EXCEPT !.ub = TRUE]
    ELSE [PickEdges(w, data[w.idx + 1], e_type, 0, data[w.idx + 1].startY)
            EXCEPT !.idx = w.idx + 1]

\* The final flush: the rows written when the workload is completed.
WorkerFinalRows(w) == IF w.buffer_pos > 0 THEN w.buffer ELSE <<>>

\* At most n turns of the loop over the blocks.  The turns are split in
\* halves, which keeps the evaluation shallow for long block lists.
RECURSIVE WorkerTurns(_, _, _, _)
WorkerTurns(w, data, e_type, n) ==
    IF n = 0 \/ ~WorkerRunning(w) THEN w
    ELSE IF n = 1 THEN WorkerBlock(w, data, e_type)
    ELSE LET Rest(half) ==
                 \* the test has the first half evaluated before the second starts
                 IF half.ub \in BOOLEAN THEN WorkerTurns(half, data, e_type, n - (n \div 2))
                 ELSE half
         IN  Rest(WorkerTurns(w, data, e_type, n \div 2))

\* The whole call, for a worker that nothing interleaves with:
\* [rows, ub] - the rows it wrote to the output stream, in order.  The loop
\* takes at most Len(data) + 1 turns: a turn at idx >= Len(data) is undefined.
WorkerRun(w, data, e_type) ==
    LET Rows(end) ==
            IF end.ub THEN [rows |-> end.written, ub |-> TRUE]
            ELSE [rows |-> end.written \o WorkerFinalRows(end), ub |-> FALSE]
    IN  Rows(WorkerTurns(w, data, e_type, Len(data) + 1))

multithread_generate_graph(data, workload_start, workload_end, seed, e_type) ==
    WorkerRun(WorkerInit(workload_start, workload_end, seed), data, e_type)

\* The rows of the node file: one per id of every node record.
RECURSIVE NodeRows(_)
NodeRows(nodes) ==
    IF nodes = <<>> THEN <<>>
    ELSE LET n == Head(nodes)
             start == convert_start_of_block(n.startID)
             end == convert_end_of_block(n.endID)
         IN  [k \in 1..Max(0, end - start + 1) |-> <<start + k - 1, n.node_type>>]
             \o NodeRows(Tail(nodes))

\* block_data: [ok, res]; ok is FALSE when a conversion throws.
RECURSIVE BlockData(_)
BlockData(edges) ==
    IF edges = <<>> THEN [ok |-> TRUE, res |-> <<>>]
    ELSE LET Pair(r, rest) ==
                 IF ~r.ok \/ ~rest.ok THEN [ok |-> FALSE, res |-> <<>>]
                 ELSE [ok |-> TRUE,
                       res |-> <<[e_type |-> Head(edges).edge_type, block |-> r.res]>>
                               \o rest.res]
         IN  Pair(read_edge_block_data(Head(edges)), BlockData(Tail(edges)))

MIN_THREADED_BLOCKS == 100

\* n_threads for a machine reporting hw >= 1 hardware threads.
NThreads(hw) == IF hw - 1 <= 1 THEN 1 ELSE hw - 1

WorkloadSize(size, n_threads) == size \div n_threads

OverflowWorkloadSize(size, n_threads) == WorkloadSize(size, n_threads) % n_threads

FirstIdxEnd(size, n_threads) ==
    SizeDec(OverflowWorkloadSize(size, n_threads) + WorkloadSize(size, n_threads))

\* The (idx_start, idx_end) pairs handed to the threads, in spawn order.
RECURSIVE Partition(_, _, _, _, _)
Partition(size, workload_size, threads_left, idx_start, idx_end) ==
    IF threads_left = 0 THEN <<>>
    ELSE LET next_start == IF idx_end = SizeMax THEN 0 ELSE idx_end + 1
             e == next_start + workload_size
             next_end == IF e > size THEN SizeDec(size) ELSE e
         IN  <<[idx_start |-> idx_start, idx_end |-> idx_end]>>
             \o Partition(size, workload_size, threads_left - 1, next_start, next_end)

ThreadRanges(size, n_threads) ==
    Partition(size, WorkloadSize(size, n_threads), n_threads, 0, FirstIdxEnd(size, n_threads))

\* The seeds drawn from rdm_gen for n threads: [seeds, state].
RECURSIVE DrawSeeds(_, _)
DrawSeeds(state, n) ==
    IF n = 0 THEN [seeds |-> <<>>, state |-> state]
    ELSE LET d == RngDraw(state)
             rest == DrawSeeds(d.state, n - 1)
         IN  [seeds |-> <<d.val>> \o rest.seeds, state |-> rest.state]

\* The threads of one edge type run one after the other, in spawn order.
RECURSIVE RunThreads(_, _, _, _)
RunThreads(ranges, seeds, block, e_type) ==
    IF ranges = <<>> THEN [rows |-> <<>>, ub |-> FALSE]
    ELSE LET Joined(r, rest) == [rows |-> r.rows \o rest.rows, ub |-> r.ub \/ rest.ub]
         IN  Joined(multithread_generate_graph(block, Head(ranges).idx_start,
                                               Head(ranges).idx_end, Head(seeds), e_type),
                    RunThreads(Tail(ranges), Tail(seeds), block, e_type))

\* The body of the loop over block_data for one edge type: [rows, rdm_gen, ub].
GenerateEdgeType(block, e_type, rdm_gen, hw) ==
    LET Done(r, state) == [rows |-> r.rows, rdm_gen |-> state, ub |-> r.ub]
        Inline(d) ==
            Done(multithread_generate_graph(block, 0, SizeDec(Len(block)), d.val, e_type),
                 d.state)
        Threaded(n, ds) ==
            Done(RunThreads(ThreadRanges(Len(block), n), ds.seeds, block, e_type), ds.state)
    IN  IF Len(block) < MIN_THREADED_BLOCKS THEN Inline(RngDraw(rdm_gen))
        ELSE Threaded(NThreads(hw), DrawSeeds(rdm_gen, NThreads(hw)))

RECURSIVE GenerateEdgeTypes(_, _, _)
GenerateEdgeTypes(block_data, rdm_gen, hw) ==
    IF block_data = <<>> THEN [rows |-> <<>>, ub |-> FALSE]
    ELSE LET Joined(r, rest) == [rows |-> r.rows \o rest.rows, ub |-> rest.ub]
             First(r) ==
                 IF r.ub THEN [rows |-> r.rows, ub |-> TRUE]
                 ELSE Joined(r, GenerateEdgeTypes(Tail(block_data), r.rdm_gen, hw))
         IN  First(GenerateEdgeType(Head(block_data).block, Head(block_data).e_type,
                                    rdm_gen, hw))

\* generate_graph with both files open: [status, node_rows, edge_rows], status
\* "ok", "throw" (an edge type is too long) or "undefined" (the edge rows are
\* then those written before the behaviour became undefined).  With threads,
\* the order of the edge rows is that of one schedule.
generate_graph(data, seed, hw) ==
    LET Edges(r) ==
            [status |-> IF r.ub THEN "undefined" ELSE "ok",
             node_rows |-> NodeRows(data.nodes), edge_rows |-> r.rows]
        Converted(bd) ==
            IF ~bd.ok
              THEN [status |-> "throw", node_rows |-> NodeRows(data.nodes), edge_rows |-> <<>>]
              ELSE Edges(GenerateEdgeTypes(bd.res, RngSeeded(seed), hw))
    IN  Converted(BlockData(data.edges))

(***************************************************************************)
(* The fitter (GenericGraphReader.cpp).  An unordered container is a       *)
(* function on its keys; the order it is iterated in is an input.          *)
(***************************************************************************)
\* std::map / std::unordered_map operator[] as a read: a missing key reads
\* as the value-initialised d.
MapGet(m, k, d) == IF k \in DOMAIN m THEN m[k] ELSE d

\* std::sort by Less.  The vectors of the model have at most 16 elements,
\* which libstdc++ sorts by insertion: elements that compare equal keep
\* their order.
StableSort(s, Less(_, _)) ==
    LET rank(i) == 1 + Cardinality({j \in DOMAIN s :
                        Less(s[j], s[i]) \/ (~Less(s[i], s[j]) /\ j < i)})
    IN  [k \in DOMAIN s |-> s[CHOOSE i \in DOMAIN s : rank(i) = k]]

\* The elements of a finite set of pairs, in std::pair order.
PairLess(a, b) == a[1] < b[1] \/ (a[1] = b[1] /\ a[2] < b[2])

RECURSIVE SortedPairs(_)
SortedPairs(ps) ==
    IF ps = {} THEN <<>>
    ELSE LET p == CHOOSE x \in ps : \A y \in ps \ {x} : PairLess(x, y)
         IN  <<p>> \o SortedPairs(ps \ {p})

Swap(s, i, j) == [s EXCEPT ![i] = s[j], ![j] = s[i]]

\* std::shuffle(first, last, g): for every position after the first, a draw
\* picks the earlier-or-equal position it is swapped with.  [seq, state].
RECURSIVE ShuffleFrom(_, _, _)
ShuffleFrom(s, i, state) ==
    IF i > Len(s) THEN [seq |-> s, state |-> state]
    ELSE LET d == RngDraw(state)
         IN  ShuffleFrom(Swap(s, i, 1 + (d.val % i)), i + 1, d.state)

Shuffle(s, state) == ShuffleFrom(s, 2, state)

\* GenericGraphReader::GenericGraphReader()
NewReader ==
    [node_count |-> 0, edge_count |-> EmptyMap, sbm_matrix |-> EmptyMap,
     node_types |-> EmptyMap, edge_colors |-> {}, nodes_to_types |-> EmptyMap,
     in_degrees |-> EmptyMap, out_degrees |-> EmptyMap]

readNode(g, node, node_type) ==
    [g EXCEPT !.node_count = @ + 1,
              !.node_types = MapSet(@, node_type, MapGet(@, node_type, 0) + 1),
              !.nodes_to_types = MapSet(@, node, node_type)]

\* m[k1][k2]++ on a map of maps.
Incr2(m, k1, k2) ==
    MapSet(m, k1, MapSet(MapGet(m, k1, EmptyMap), k2, MapGet(MapGet(m, k1, EmptyMap), k2, 0) + 1))

readEdge(g, start, end, edge_type) ==
    LET Counted(types) ==
            [g EXCEPT !.edge_count = MapSet(@, edge_type, MapGet(@, edge_type, 0) + 1),
                      !.nodes_to_types = types,
                      !.sbm_matrix = Incr2(@, edge_type, <<types[start], types[end]>>),
                      !.out_degrees = Incr2(@, edge_type, start),
                      !.in_degrees = Incr2(@, edge_type, end),
                      !.edge_colors = @ \cup {edge_type}]
        \* nodes_to_types[start], then nodes_to_types[end]: operator[] inserts
        \* the empty type for a node that was never read.
        TypeEnd(types) == Counted(MapSet(types, end, MapGet(types, end, <<>>)))
    IN  TypeEnd(MapSet(g.nodes_to_types, start, MapGet(g.nodes_to_types, start, <<>>)))

\* in_distribution / out_distribution of degs (in_degrees or out_degrees):
\* the nodes of type n_type with an entry for e_type, by degree.
NodesWithDegree(g, degs, n_type, e_type) ==
    IF e_type \in DOMAIN degs
      THEN {n \in DOMAIN degs[e_type] : g.nodes_to_types[n] = n_type}
      ELSE {}

\* The (degree, amount) entries of one distribution, as a set.
Distribution(g, degs, n_type, e_type) ==
    LET Counted(ns) ==
            {<<d, Cardinality({n \in ns : degs[e_type][n] = d})>> :
                d \in {degs[e_type][n] : n \in ns}}
    IN  Counted(NodesWithDegree(g, degs, n_type, e_type))

RECURSIVE SumAmounts(_)
SumAmounts(ps) ==
    IF ps = {} THEN 0
    ELSE LET p == CHOOSE x \in ps : TRUE IN p[2] + SumAmounts(ps \ {p})

RECURSIVE SumDegrees(_)
SumDegrees(ps) ==
    IF ps = {} THEN 0
    ELSE LET p == CHOOSE x \in ps : TRUE IN p[1] * p[2] + SumDegrees(ps \ {p})

\* The node types that get a Node_Type_Container: the observed ones and the
\* ones a degree distribution refers to.
ContainerTypes(g) ==
    (DOMAIN g.node_types)
    \cup {g.nodes_to_types[n] : n \in UNION ({DOMAIN g.in_degrees[e] : e \in DOMAIN g.in_degrees}
                                       \cup {DOMAIN g.out_degrees[e] : e \in DOMAIN g.out_degrees})}

\* The keys of container.edge_data for the node type n_type.
EdgeDataKeys(g, n_type) ==
    IF n_type \in DOMAIN g.node_types THEN g.edge_colors
    ELSE {e \in g.edge_colors : NodesWithDegree(g, g.in_degrees, n_type, e) # {}
                                \/ NodesWithDegree(g, g.out_degrees, n_type, e) # {}}

\* The degree vector of one direction before the shuffle: filled from the
\* distribution, padded with the 0-degree nodes, sorted.
PaddedDegrees(dist, node_count) ==
    SortedPairs(dist \cup (IF SumAmounts(dist) < node_count
                             THEN {<<0, node_count - SumAmounts(dist)>>} ELSE {}))

\* The Edge_Type_Container of every (node type, edge type) in pairs, the
\* order the padding loop visits them in: each visit sorts and shuffles the
\* in-degrees, then the out-degrees, with the one random_source.
RECURSIVE EdgeContainers(_, _, _)
EdgeContainers(g, pairs, state) ==
    IF pairs = <<>> THEN <<>>
    ELSE LET Container(ind, outd, si, so) ==
                 (Head(pairs) :> [sum_of_in_degrees |-> SumDegrees(ind),
                                  sum_of_out_degrees |-> SumDegrees(outd),
                                  number_of_nodes_with_in_degree |-> SumAmounts(ind),
                                  number_of_nodes_with_out_degree |-> SumAmounts(outd),
                                  in_degrees |-> si.seq,
                                  out_degrees |-> so.seq])
                 @@ EdgeContainers(g, Tail(pairs), so.state)
             ShuffledIn(ind, outd, node_count, si) ==
                 Container(ind, outd, si, Shuffle(PaddedDegrees(outd, node_count), si.state))
             Distributions(ind, outd, node_count) ==
                 ShuffledIn(ind, outd, node_count,
                            Shuffle(PaddedDegrees(ind, node_count), state))
         IN  Distributions(Distribution(g, g.in_degrees, Head(pairs)[1], Head(pairs)[2]),
                           Distribution(g, g.out_degrees, Head(pairs)[1], Head(pairs)[2]),
                           MapGet(g.node_types, Head(pairs)[1], 0))

\* The (node type, edge type) pairs in the order of the padding loop, for
\* the iteration orders nt_order of nt_containers and ed_order of edge_data.
VisitOrder(g, nt_order, ed_order) ==
    Concat([i \in 1..Len(nt_order) |->
              [j \in 1..Len(SelectSeq(ed_order, LAMBDA e : e \in EdgeDataKeys(g, nt_order[i]))) |->
                 <<nt_order[i], SelectSeq(ed_order, LAMBDA e : e \in EdgeDataKeys(g, nt_order[i]))[j]>>]])

\* work_container: the Node_Type_Container of every type, in nt_order.
WorkContainer(g, nt_order, ed_order, seed) ==
    LET ec == EdgeContainers(g, VisitOrder(g, nt_order, ed_order), RngSeeded(seed))
    IN  [i \in 1..Len(nt_order) |->
           [node_count |-> MapGet(g.node_types, nt_order[i], 0),
            node_type |-> nt_order[i],
            edge_data |-> [e \in EdgeDataKeys(g, nt_order[i]) |-> ec[<<nt_order[i], e>>]]]]

\* The sum of the node counts of the containers before position i.
RECURSIVE OuterId(_, _)
OuterId(work, i) == IF i <= 1 THEN 0 ELSE OuterId(work, i - 1) + work[i - 1].node_count

\* The sum of the amounts of the degree entries before position k.
RECURSIVE AmountsBefore(_, _)
AmountsBefore(degs, k) == IF k <= 1 THEN 0 ELSE AmountsBefore(degs, k - 1) + degs[k - 1][2]

\* A formula that leaves the in-degree out.
BlockProbabilityOutOnly(edges_between_types, deg_x, sum_of_out, deg_y, sum_of_in) ==
    IF sum_of_out > 0 /\ sum_of_in > 0
      THEN FMul(ToFloat(IntR(edges_between_types)),
                FDiv(ToFloat(IntR(deg_x)), ToFloat(IntR(sum_of_out))))
      ELSE <<0, 1>>

\* The DDcSBM formula in single precision, 0 when a degree sum is 0.
BlockProbability(edges_between_types, deg_x, sum_of_out, deg_y, sum_of_in) ==
    IF sum_of_out > 0 /\ sum_of_in > 0
      THEN FMul(FMul(ToFloat(IntR(edges_between_types)),
                     FDiv(ToFloat(IntR(deg_x)), ToFloat(IntR(sum_of_out)))),
                FDiv(ToFloat(IntR(deg_y)), ToFloat(IntR(sum_of_in))))
      ELSE <<0, 1>>

HasOutDegree(container, e_type) ==
    e_type \in DOMAIN container.edge_data
    /\ container.edge_data[e_type].number_of_nodes_with_out_degree # 0

HasInDegree(container, e_type) ==
    e_type \in DOMAIN container.edge_data
    /\ container.edge_data[e_type].number_of_nodes_with_in_degree # 0

\* The blocks of the container pair (x, y) for e_type, in emission order.
PairBlocks(g, work, e_type, x, y) ==
    LET Block(current_id_x, amount_x, current_id_y, amount_y, prob) ==
            IF RLess(<<0, 1>>, prob)
              THEN <<Edge_Block(IntR(current_id_x), IntR(current_id_x + amount_x),
                                IntR(current_id_y), IntR(current_id_y + amount_y), prob)>>
              ELSE <<>>
        Cells(cx, cy, edges_between_types) ==
            Concat([a \in 1..Len(cx.out_degrees) |->
                      Concat([b \in 1..Len(cy.in_degrees) |->
                                Block(OuterId(work, x) + AmountsBefore(cx.out_degrees, a),
                                      cx.out_degrees[a][2],
                                      OuterId(work, y) + AmountsBefore(cy.in_degrees, b),
                                      cy.in_degrees[b][2],
                                      BlockProbability(edges_between_types,
                                                       cx.out_degrees[a][1], cx.sum_of_out_degrees,
                                                       cy.in_degrees[b][1], cy.sum_of_in_degrees))])])
    IN  Cells(work[x].edge_data[e_type], work[y].edge_data[e_type],
              MapGet(MapGet(g.sbm_matrix, e_type, EmptyMap),
                     <<work[x].node_type, work[y].node_type>>, 0))

\* Edge_Block::operator<
BlockLess(a, b) ==
    RLess(a.startX, b.startX) \/ (a.startX = b.startX /\ RLess(a.startY, b.startY))

\* The Edge_Record compiled for e_type.
CompileEdgeRecord(g, work, e_type) ==
    Edge_Record(e_type,
        StableSort(Concat([x \in 1..Len(work) |->
                          IF ~HasOutDegree(work[x], e_type) THEN <<>>
                          ELSE Concat([y \in 1..Len(work) |->
                                         IF ~HasInDegree(work[y], e_type) THEN <<>>
                                         ELSE PairBlocks(g, work, e_type, x, y)])]),
                BlockLess))

\* Node_Record::operator<
NodeLess(a, b) ==
    RLess(a.startID, b.startID) \/ (a.startID = b.startID /\ RLess(a.endID, b.endID))

DefaultName ==
    <<"U", "n", "n", "a", "m", "e", "d", " ", "g", "r", "a", "p", "h", " ", "m", "o", "d", "e", "l">>

DefaultScale == <<"1", ".", "0">>

\* GenericGraphReader::process, for the iteration orders nt_order (of
\* nt_containers) and ed_order (of every edge_data).
process(g, meta_data, seed, nt_order, ed_order) ==
    LET values == [k \in ({KeySCALE} \cup DOMAIN meta_data) \ {KeyNAME} |->
                     IF k \in DOMAIN meta_data THEN meta_data[k] ELSE DefaultScale]
        name == IF KeyNAME \in DOMAIN meta_data THEN meta_data[KeyNAME] ELSE DefaultName
        Nodes(work) ==
            [i \in 1..Len(work) |->
               Node_Record(IntR(OuterId(work, i)), IntR(OuterId(work, i) + work[i].node_count),
                           work[i].node_type)]
        Compiled(work, types) ==
            [meta |-> Meta_Record(name, values),
             nodes |-> StableSort(Nodes(work), NodeLess),
             edges |-> [k \in 1..Len(types) |-> CompileEdgeRecord(g, work, types[k])]]
    IN  Compiled(WorkContainer(g, nt_order, ed_order, seed), SortedKeys(g.edge_colors))

\* The orders an unordered container with the keys ks can be iterated in.
Orders(ks) ==
    {o \in [1..Cardinality(ks) -> ks] : \A i, j \in DOMAIN o : i # j => o[i] # o[j]}

(***************************************************************************)
(* The TSV reader (TSVReader.cpp).  A file system is a function from the   *)
(* paths of the files that can be opened to their texts.                   *)
(***************************************************************************)
TAB == "\t"

\* line.ends_with('\r') -> erase it.
StripCR(line) ==
    IF line # <<>> /\ line[Len(line)] = "\r" THEN SubSeq(line, 1, Len(line) - 1) ELSE line

\* split_on_char(s, '\t', container): the columns of a line.
split_on_char(s) == SplitOn(s, TAB)

\* The lines std::getline reads from a text.
FileLines(text) == SplitOn(text, "\n")

\* The first line, as read by the std::getline whose result is not tested.
HeaderLine(text) ==
    LET First(lines) == IF lines = <<>> THEN <<>> ELSE StripCR(lines[1])
    IN  First(FileLines(text))

MaxOf(idxs) == CHOOSE m \in Range(idxs) : \A k \in Range(idxs) : k <= m

\* The composite type of the columns at idxs (0-based), joined by '_'.
RECURSIVE CompositeType(_, _)
CompositeType(columns, idxs) ==
    IF idxs = <<>> THEN <<>>
    ELSE IF Len(idxs) = 1 THEN columns[idxs[1] + 1]
    ELSE columns[idxs[1] + 1] \o <<"_">> \o CompositeType(columns, Tail(idxs))

\* The data rows of a node file, observed one after another.
RECURSIVE ReadNodeRows(_, _, _, _)
ReadNodeRows(g, lines, expected_nbr_of_columns, rd) ==
    IF lines = <<>> THEN g
    ELSE LET Row(columns) ==
                 IF Len(columns) # expected_nbr_of_columns
                   THEN ReadNodeRows(g, Tail(lines), expected_nbr_of_columns, rd)
                   ELSE ReadNodeRows(readNode(g, columns[rd.node_name_index + 1],
                                              CompositeType(columns, rd.node_type_indices)),
                                     Tail(lines), expected_nbr_of_columns, rd)
         IN  Row(split_on_char(StripCR(Head(lines))))

RECURSIVE ReadEdgeRows(_, _, _, _)
ReadEdgeRows(g, lines, expected_nbr_of_columns, rd) ==
    IF lines = <<>> THEN g
    ELSE LET Row(columns) ==
                 IF Len(columns) # expected_nbr_of_columns
                   THEN ReadEdgeRows(g, Tail(lines), expected_nbr_of_columns, rd)
                   ELSE ReadEdgeRows(readEdge(g, columns[rd.start_node_index + 1],
                                              columns[rd.end_node_index + 1],
                                              CompositeType(columns, rd.edge_type_indices)),
                                     Tail(lines), expected_nbr_of_columns, rd)
         IN  Row(split_on_char(StripCR(Head(lines))))

\* The header of a node file admits the configured indices.
NodeHeaderOk(text, rd) ==
    LET Enough(n) == rd.node_name_index < n /\ MaxOf(rd.node_type_indices) < n
    IN  Enough(Len(split_on_char(HeaderLine(text))))

EdgeHeaderOk(text, rd) ==
    LET Enough(n) ==
            rd.start_node_index < n /\ rd.end_node_index < n /\ MaxOf(rd.edge_type_indices) < n
    IN  Enough(Len(split_on_char(HeaderLine(text))))

\* One node file: [ok, g]; ok is FALSE when the file cannot be opened or
\* its header is too short (g is then the reader as it was).
ReadNodeFile(fs, g, filename, rd) ==
    IF filename \notin DOMAIN fs \/ ~NodeHeaderOk(fs[filename], rd)
      THEN [ok |-> FALSE, g |-> g]
      ELSE [ok |-> TRUE,
            g |-> ReadNodeRows(g, Tail(FileLines(fs[filename])),
                               Len(split_on_char(HeaderLine(fs[filename]))), rd)]

ReadEdgeFile(fs, g, filename, rd) ==
    IF filename \notin DOMAIN fs \/ ~EdgeHeaderOk(fs[filename], rd)
      THEN [ok |-> FALSE, g |-> g]
      ELSE [ok |-> TRUE,
            g |-> ReadEdgeRows(g, Tail(FileLines(fs[filename])),
                               Len(split_on_char(HeaderLine(fs[filename]))), rd)]

RECURSIVE ReadNodeFiles(_, _, _, _)
ReadNodeFiles(fs, g, files, rd) ==
    IF files = <<>> THEN [ok |-> TRUE, g |-> g]
    ELSE LET Rest(r) == IF r.ok THEN ReadNodeFiles(fs, r.g, Tail(files), rd) ELSE r
         IN  Rest(ReadNodeFile(fs, g, Head(files), rd))

RECURSIVE ReadEdgeFiles(_, _, _, _)
ReadEdgeFiles(fs, g, files, rd) ==
    IF files = <<>> THEN [ok |-> TRUE, g |-> g]
    ELSE LET Rest(r) == IF r.ok THEN ReadEdgeFiles(fs, r.g, Tail(files), rd) ELSE r
         IN  Rest(ReadEdgeFile(fs, g, Head(files), rd))

\* The observation part of TSVReader::readTo: all node files, then all
\* edge files.  [ok, g].
Observe(fs, rd) ==
    LET Edges(n) == IF n.ok THEN ReadEdgeFiles(fs, n.g, rd.edge_files, rd) ELSE n
    IN  Edges(ReadNodeFiles(fs, NewReader, rd.node_files, rd))

\* TSVReader::readTo: [ok, data], for the iteration orders of the reader's
\* unordered containers.
readTo(fs, rd, seed, nt_order, ed_order) ==
    LET Processed(o) ==
            IF o.ok THEN [ok |-> TRUE, data |-> process(o.g, rd.data, seed, nt_order, ed_order)]
            ELSE [ok |-> FALSE, data |-> EmptyM1]
    IN  Processed(Observe(fs, rd))

(***************************************************************************)
(* The script format (s1ScriptFormat.cpp): templates, tokens, parsing.     *)
(***************************************************************************)
\* target_str.find(search_str, from) with 1-based positions: the first
\* position >= from at which search occurs, or 0 (npos).
RECURSIVE FindStr(_, _, _)
FindStr(target, search, from) ==
    IF from + Len(search) - 1 > Len(target) THEN 0
    ELSE IF SubSeq(target, from, from + Len(search) - 1) = search THEN from
    ELSE FindStr(target, search, from + 1)

\* The loop of inplace_replaceAll from last_pos (0-based): [ok, text].  ok
\* is FALSE when the loop never ends by itself: an empty template is found
\* at every last_pos, and last_pos never reaches the end of a target that
\* grows with it (or stays, for an empty replacement).
RECURSIVE ReplaceFrom(_, _, _, _)
ReplaceFrom(search_str, replace_str, target_str, last_pos) ==
    LET At(found) ==
            IF found = 0 \/ last_pos >= Len(target_str) THEN [ok |-> TRUE, text |-> target_str]
            ELSE IF search_str = <<>> THEN [ok |-> FALSE, text |-> target_str]
            ELSE ReplaceFrom(search_str, replace_str,
                             SubSeq(target_str, 1, found - 1) \o replace_str
                               \o DropFirst(target_str, found - 1 + Len(search_str)),
                             found - 1 + Len(replace_str))
    IN  At(FindStr(target_str, search_str, last_pos + 1))

inplace_replaceAll(search_str, replace_str, target_str) ==
    ReplaceFrom(search_str, replace_str, target_str, 0)

\* The template/replace pairs applied in the given order: [ok, text].
RECURSIVE ApplyReplaces(_, _)
ApplyReplaces(replaces, input) ==
    IF replaces = <<>> THEN [ok |-> TRUE, text |-> input]
    ELSE LET Rest(r) == IF r.ok THEN ApplyReplaces(Tail(replaces), r.text) ELSE r
         IN  Rest(inplace_replaceAll(Head(replaces)[1], Head(replaces)[2], input))

Lower == <<"a", "b", "c", "d", "e", "f", "g", "h", "i", "j", "k", "l", "m",
           "n", "o", "p", "q", "r", "s", "t", "u", "v", "w", "x", "y", "z">>

Upper == <<"A", "B", "C", "D", "E", "F", "G", "H", "I", "J", "K", "L", "M",
           "N", "O", "P", "Q", "R", "S", "T", "U", "V", "W", "X", "Y", "Z">>

\* ::toupper on one character, and on every character of a string.
ToUpperChar(c) ==
    IF c \in Range(Lower) THEN Upper[CHOOSE i \in DOMAIN Lower : Lower[i] = c] ELSE c

ToUpper(str) == [i \in DOMAIN str |-> ToUpperChar(str[i])]

IsBlank(c) == c \in {" ", "\n", "\r", "\t"}

\* The scanner of tokenize_s1 before the first character.
TokenizerInit ==
    [e_mode |-> "Escape_Inactive", r_mode |-> "ReadDefault", buffer |-> <<>>, raw_tokens |-> <<>>]

\* One turn of the loop over the characters of the input.
TokenizerChar(st, i) ==
    IF st.e_mode = "Escape_Active"
      THEN IF i = "\"" THEN [st EXCEPT !.e_mode = "Escape_Inactive"]
           ELSE [st EXCEPT !.buffer = Append(@, i)]
    ELSE IF st.r_mode = "ReadDefault"
      THEN IF i = "\"" THEN [st EXCEPT !.e_mode = "Escape_Active", !.r_mode = "ReadToken"]
           ELSE IF IsBlank(i) THEN st
           ELSE [st EXCEPT !.buffer = Append(@, i), !.r_mode = "ReadToken"]
    ELSE IF IsBlank(i)
      THEN [st EXCEPT !.raw_tokens = Append(@, st.buffer), !.buffer = <<>>,
                      !.r_mode = "ReadDefault"]
      ELSE [st EXCEPT !.buffer = Append(@, i)]

\* The turns for input[lo..hi], split in halves to keep the evaluation
\* shallow.
RECURSIVE TokenizerChars(_, _, _, _)
TokenizerChars(st, input, lo, hi) ==
    IF lo > hi THEN st
    ELSE IF lo = hi THEN TokenizerChar(st, input[lo])
    ELSE LET mid == (lo + hi) \div 2
             left == TokenizerChars(st, input, lo, mid)
         IN  \* the test has the left half evaluated before the right one starts
             IF left.e_mode \in {"Escape_Active", "Escape_Inactive"}
               THEN TokenizerChars(left, input, mid + 1, hi)
               ELSE left

\* A raw token with its specifier.
Token(raw) ==
    IF raw # <<>> /\ raw[1] = "-" THEN [type |-> "TTag", text |-> ToUpper(raw)]
    ELSE IF raw # <<>> /\ raw[1] = "+" THEN [type |-> "TSubtag", text |-> ToUpper(raw)]
    ELSE [type |-> "TArgument", text |-> raw]

\* tokenize_s1: [status, tokens]; status is "ok", "throw" (unmatched
\* quotation mark) or "diverges" (a replace that never ends).
tokenize_s1(input, replaces) ==
    LET Specified(raw_tokens) ==
            [status |-> "ok", tokens |-> [k \in DOMAIN raw_tokens |-> Token(raw_tokens[k])]]
        Scanned(st) ==
            IF st.e_mode = "Escape_Active" THEN [status |-> "throw", tokens |-> <<>>]
            ELSE Specified(IF st.buffer # <<>> THEN Append(st.raw_tokens, st.buffer)
                           ELSE st.raw_tokens)
        Replaced(r) ==
            IF ~r.ok THEN [status |-> "diverges", tokens |-> <<>>]
            ELSE Scanned(TokenizerChars(TokenizerInit, r.text, 1, Len(r.text)))
    IN  Replaced(ApplyReplaces(replaces, input))

\* The token at the 0-based index k.
Tok(tokens, k) == tokens[k + 1]

\* The first index >= k that is tokens.size() or holds a token whose type
\* is in stop.
RECURSIVE ScanTo(_, _, _)
ScanTo(tokens, k, stop) ==
    IF k >= Len(tokens) \/ Tok(tokens, k).type \in stop THEN k
    ELSE ScanTo(tokens, k + 1, stop)

\* The text after its leading white space (strtoul and strtof skip it).
RECURSIVE SkipBlanks(_)
SkipBlanks(str) ==
    IF str # <<>> /\ IsBlank(str[1]) THEN SkipBlanks(Tail(str)) ELSE str

\* std::stoul on a text without a sign: [ok, val].  The numbers of the
\* model have few digits; none is out of range.
Stoul(str) ==
    LET Converted(t, n) ==
            IF n = 0 THEN [ok |-> FALSE, val |-> 0]
            ELSE [ok |-> TRUE, val |-> DigitsVal(SubSeq(t, 1, n), 0)]
        Skipped(t) == Converted(t, DigitRun(t))
    IN  Skipped(SkipBlanks(str))

\* std::stof on the argument of -Scale: [ok, val, negative].  The texts of
\* the model hold an optional '-', digits and '.', no exponent.
StofSigned(str) ==
    LET Signed(r, neg) == [ok |-> r.ok, val |-> r.val, negative |-> neg]
        Skipped(t) ==
            IF t # <<>> /\ t[1] = "-" THEN Signed(Stof(Tail(t)), TRUE)
            ELSE Signed(Stof(t), FALSE)
    IN  Skipped(SkipBlanks(str))

\* The value-initialised members of Instruction.
NoRead ==
    [node_files |-> <<>>, edge_files |-> <<>>, node_name_index |-> 0,
     node_type_indices |-> <<>>, start_node_index |-> 0, end_node_index |-> 0,
     edge_type_indices |-> <<>>, data |-> EmptyMap]

NoGenerate == [nodefile_path |-> <<>>, edge_file_path |-> <<>>, n_to_generate |-> 0]

NoExecute == [scriptfile_path |-> <<>>, replace_templates |-> <<>>]

Instruction(type) ==
    [type |-> type, s_val |-> <<>>, f_val |-> <<0, 1>>, read |-> NoRead,
     generate |-> NoGenerate, execute |-> NoExecute]

\* The Read_Instruction a -READ starts from.
DefaultRead ==
    [NoRead EXCEPT !.node_type_indices = <<1>>, !.end_node_index = 1,
                   !.edge_type_indices = <<2>>]

\* A -READ whose default type indices count as overwritten from the start.
ReadParseInitOverwritten ==
    [status |-> "ok", i |-> DefaultRead, overwritten_default_node_type_index |-> TRUE,
     overwritten_default_edge_type_index |-> TRUE]

\* The state of parsing one -READ: the instruction so far and whether the
\* default type indices were overwritten.
ReadParseInit ==
    [status |-> "ok", i |-> DefaultRead, overwritten_default_node_type_index |-> FALSE,
     overwritten_default_edge_type_index |-> FALSE]

\* std::stoul of every argument in args: [ok, vals].
RECURSIVE StoulAll(_)
StoulAll(args) ==
    IF args = <<>> THEN [ok |-> TRUE, vals |-> <<>>]
    ELSE LET Both(h, t) ==
                 IF h.ok /\ t.ok THEN [ok |-> TRUE, vals |-> <<h.val>> \o t.vals]
                 ELSE [ok |-> FALSE, vals |-> <<>>]
         IN  Both(Stoul(Head(args)), StoulAll(Tail(args)))

\* One sub-instruction of -READ: the token at sub and its arguments, the
\* tokens up to end_sub.  status "undefined": tokens[sub + 1] is read when
\* no such token exists.
ParseSubInstruction(st, tokens, sub, end_sub) ==
    LET fail == [st EXCEPT !.status = "throw"]
        undef == [st EXCEPT !.status = "undefined"]
        Sub(name, args, nums) ==
            IF name = <<"+", "N", "O", "D", "E", "F", "I", "L", "E">>
              THEN [st EXCEPT !.i.node_files = @ \o args]
            ELSE IF name = <<"+", "E", "D", "G", "E", "F", "I", "L", "E">>
              THEN [st EXCEPT !.i.edge_files = @ \o args]
            ELSE IF name = <<"+", "N", "O", "D", "E", "I", "N", "D", "E", "X">>
              THEN IF sub + 1 >= Len(tokens) THEN undef
                   ELSE IF Len(args) # 1 \/ ~nums.ok THEN fail
                   ELSE [st EXCEPT !.i.node_name_index = nums.vals[1]]
            ELSE IF name = <<"+", "N", "O", "D", "E", "T", "Y", "P", "E", "I", "N", "D", "E", "X">>
              THEN IF ~nums.ok THEN fail
                   ELSE IF args = <<>> THEN st
                   ELSE [st EXCEPT !.i.node_type_indices =
                                       (IF st.overwritten_default_node_type_index THEN @ ELSE <<>>)
                                       \o nums.vals,
                                   !.overwritten_default_node_type_index = TRUE]
            ELSE IF name = <<"+", "E", "D", "G", "E", "I", "N", "D", "E", "X">>
              THEN IF sub + 1 >= Len(tokens) THEN undef
                   ELSE IF Len(args) # 2 \/ ~nums.ok THEN fail
                   ELSE [st EXCEPT !.i.start_node_index = nums.vals[1],
                                   !.i.end_node_index = nums.vals[2]]
            ELSE IF name = <<"+", "E", "D", "G", "E", "T", "Y", "P", "E", "I", "N", "D", "E", "X">>
              THEN IF ~nums.ok THEN fail
                   ELSE IF args = <<>> THEN st
                   ELSE [st EXCEPT !.i.edge_type_indices =
                                       (IF st.overwritten_default_edge_type_index THEN @ ELSE <<>>)
                                       \o nums.vals,
                                   !.overwritten_default_edge_type_index = TRUE]
            ELSE IF name = <<"+", "A", "R", "G">>
              THEN IF sub + 1 >= Len(tokens) THEN undef
                   ELSE IF Len(args) # 2 THEN fail
                   ELSE [st EXCEPT !.i.data = MapSet(@, ToUpper(args[1]), args[2])]
            ELSE fail
        Args(args) == Sub(Tok(tokens, sub).text, args, StoulAll(args))
    IN  Args([k \in 1..(end_sub - sub) |-> Tok(tokens, sub + k).text])

\* The loop over the sub-instructions of a -READ whose last token is at
\* idx_end_of_instruction.
RECURSIVE ParseSubInstructions(_, _, _, _)
ParseSubInstructions(st, tokens, sub, idx_end_of_instruction) ==
    IF st.status # "ok" \/ sub > idx_end_of_instruction THEN st
    ELSE LET To(end_sub) ==
                 ParseSubInstructions(ParseSubInstruction(st, tokens, sub, end_sub),
                                      tokens, end_sub + 1, idx_end_of_instruction)
         IN  To(ScanTo(tokens, sub + 1, {"TSubtag", "TTag"}) - 1)

\* The template/replace pairs of an -EXECUTE: the arguments from the
\* 0-based index k on, two by two.
RECURSIVE ReplacePairs(_, _, _)
ReplacePairs(tokens, k, idx_end_of_instruction) ==
    IF k > idx_end_of_instruction THEN <<>>
    ELSE <<<<Tok(tokens, k).text, Tok(tokens, k + 1).text>>>>
         \o ReplacePairs(tokens, k + 2, idx_end_of_instruction)

\* The instruction whose tag is at current_idx and whose last token is at
\* idx_end: [status, instr].
ParseInstruction(tokens, current_idx, idx_end) ==
    LET ok(instr) == [status |-> "ok", instr |-> instr]
        fail == [status |-> "throw", instr |-> Instruction("IHelp")]
        undef == [status |-> "undefined", instr |-> Instruction("IHelp")]
        Read(r) ==
            IF r.status = "ok" THEN ok([Instruction("IRead") EXCEPT !.read = r.i])
            ELSE IF r.status = "throw" THEN fail ELSE undef
        Scale(f) ==
            IF ~f.ok \/ f.negative \/ f.val = <<0, 1>> THEN fail
            ELSE ok([Instruction("IScale") EXCEPT !.f_val = f.val])
        Generate(c) ==
            IF ~c.ok THEN fail
            ELSE ok([Instruction("IGenerate") EXCEPT
                       !.generate = [nodefile_path |-> Tok(tokens, current_idx + 1).text,
                                     edge_file_path |-> Tok(tokens, current_idx + 2).text,
                                     n_to_generate |-> c.val]])
        Tag(tag, n, allArgs) ==
            IF tag = <<"-", "R", "E", "A", "D">>
              THEN Read(ParseSubInstructions(ReadParseInit, tokens, current_idx + 1, idx_end))
            ELSE IF tag = <<"-", "E", "X", "E", "C", "U", "T", "E">>
              THEN IF n < 1 \/ n % 2 # 1 \/ ~allArgs THEN fail
                   ELSE ok([Instruction("IExecute") EXCEPT
                              !.execute = [scriptfile_path |-> Tok(tokens, current_idx + 1).text,
                                           replace_templates |->
                                               ReplacePairs(tokens, current_idx + 2, idx_end)]])
            ELSE IF tag = <<"-", "L", "O", "A", "D">>
              THEN IF n # 1 \/ ~allArgs THEN fail
                   ELSE ok([Instruction("ILoad") EXCEPT !.s_val = Tok(tokens, idx_end).text])
            ELSE IF tag = <<"-", "S", "A", "V", "E">>
              THEN IF n # 1 \/ ~allArgs THEN fail
                   ELSE ok([Instruction("ISave") EXCEPT !.s_val = Tok(tokens, idx_end).text])
            ELSE IF tag = <<"-", "S", "C", "A", "L", "E">>
              THEN IF current_idx + 1 >= Len(tokens) THEN undef
                   ELSE IF n # 1 \/ ~allArgs THEN fail
                   ELSE Scale(StofSigned(Tok(tokens, current_idx + 1).text))
            ELSE IF tag = <<"-", "S", "E", "E", "D">>
              THEN IF n # 1 \/ ~allArgs THEN fail
                   ELSE ok([Instruction("ISeed") EXCEPT !.s_val = Tok(tokens, idx_end).text])
            ELSE IF tag = <<"-", "G", "E", "N", "E", "R", "A", "T", "E">>
              THEN IF current_idx + 1 >= Len(tokens) THEN undef
                   ELSE IF n # 3 \/ ~allArgs THEN fail
                   ELSE Generate(Stoul(Tok(tokens, current_idx + 3).text))
            ELSE IF tag = <<"-", "H", "E", "L", "P">> THEN ok(Instruction("IHelp"))
            ELSE fail
    IN  Tag(Tok(tokens, current_idx).text, idx_end - current_idx,
            \A k \in (current_idx + 1)..idx_end : Tok(tokens, k).type = "TArgument")

\* The loop of parse_s1_file from current_idx: [status, instructions];
\* status is "ok", "throw" or "undefined".
RECURSIVE ParseFrom(_, _)
ParseFrom(tokens, current_idx) ==
    IF current_idx >= Len(tokens) THEN [status |-> "ok", instructions |-> <<>>]
    ELSE IF Tok(tokens, current_idx).type # "TTag"
      THEN [status |-> "throw", instructions |-> <<>>]
    ELSE LET Both(r, rest) ==
                 IF rest.status # "ok" THEN rest
                 ELSE [status |-> "ok", instructions |-> <<r.instr>> \o rest.instructions]
             First(r, idx_end) ==
                 IF r.status # "ok" THEN [status |-> r.status, instructions |-> <<>>]
                 ELSE Both(r, ParseFrom(tokens, idx_end + 1))
             To(idx_end) == First(ParseInstruction(tokens, current_idx, idx_end), idx_end)
         IN  To(ScanTo(tokens, current_idx + 1, {"TTag"}) - 1)

parse_s1_file(tokens) == ParseFrom(tokens, 0)

\* A loop that returns the instructions parsed before the first one that
\* does not parse.
RECURSIVE ParseFromLenient(_, _)
ParseFromLenient(tokens, current_idx) ==
    IF current_idx >= Len(tokens) THEN [status |-> "ok", instructions |-> <<>>]
    ELSE IF Tok(tokens, current_idx).type # "TTag"
      THEN [status |-> "ok", instructions |-> <<>>]
    ELSE LET First(r, idx_end) ==
                 IF r.status # "ok" THEN [status |-> "ok", instructions |-> <<>>]
                 ELSE [status |-> "ok",
                       instructions |-> <<r.instr>> \o ParseFromLenient(tokens, idx_end + 1).instructions]
             To(idx_end) == First(ParseInstruction(tokens, current_idx, idx_end), idx_end)
         IN  To(ScanTo(tokens, current_idx + 1, {"TTag"}) - 1)

\* A script text to the instructions that parse before the first error.
ParseScriptLenient(text, replaces) ==
    LET Parsed(t) ==
            IF t.status # "ok" THEN [status |-> t.status, instructions |-> <<>>]
            ELSE ParseFromLenient(t.tokens, 0)
    IN  Parsed(tokenize_s1(text, replaces))

\* A script text to instructions, as main and -Execute do it:
\* [status, instructions].
ParseScript(text, replaces) ==
    LET Parsed(t) ==
            IF t.status # "ok" THEN [status |-> t.status, instructions |-> <<>>]
            ELSE parse_s1_file(t.tokens)
    IN  Parsed(tokenize_s1(text, replaces))

(***************************************************************************)
(* Paths and files.  fs maps the path of every existing file to its text;  *)
(* dirs is the set of directories in which a file can be created.  The     *)
(* paths of the model have single separators and no trailing separator.    *)
(***************************************************************************)
\* std::filesystem::path::parent_path().string()
parent_path(p) ==
    LET Before(i) == IF i = 0 THEN <<>> ELSE IF i = 1 THEN <<"/">> ELSE SubSeq(p, 1, i - 1)
    IN  Before(RFindChar(p, "/", Len(p)))

\* std::filesystem::path::filename().string()
filename(p) == DropFirst(p, RFindChar(p, "/", Len(p)))

\* The position of the dot that starts the extension of a file name, or 0.
ExtensionDot(f) ==
    LET Dot(j) == IF f = <<".">> \/ f = <<".", ".">> \/ j <= 1 THEN 0 ELSE j
    IN  Dot(RFindChar(f, ".", Len(f)))

stem(p) ==
    LET Name(f, dot) == IF dot = 0 THEN f ELSE SubSeq(f, 1, dot - 1)
    IN  Name(filename(p), ExtensionDot(filename(p)))

extension(p) ==
    LET Ext(f, dot) == IF dot = 0 THEN <<>> ELSE DropFirst(f, dot - 1)
    IN  Ext(filename(p), ExtensionDot(filename(p)))

\* std::ofstream::open succeeds.
CanOpenOut(dirs, p) == filename(p) # <<>> /\ parent_path(p) \in dirs

\* The path of the i-th graph of a -Generate of more than one graph.
NumberedPath(p, i) ==
    parent_path(p) \o <<"/">> \o stem(p) \o <<"_">> \o NatToStr(i) \o extension(p)

\* The text of a node file and of an edge file.
NodeFileText(rows) ==
    Concat([k \in DOMAIN rows |-> NatToStr(rows[k][1]) \o <<TAB>> \o rows[k][2] \o NL])

EdgeFileText(rows) ==
    Concat([k \in DOMAIN rows |->
              NatToStr(rows[k][1]) \o <<TAB>> \o NatToStr(rows[k][2]) \o <<TAB>> \o rows[k][3] \o NL])

\* generate_graph on the files: [status, fs, node_rows, edge_rows]; status
\* is "ok", "throw" or "undefined".  The node file is opened first, the edge
\* file is truncated before the node file is written, and the block data is
\* converted after the node file is closed.
generate_graph_files(fs, dirs, node_file_name, edge_file_name, data, seed, hw) ==
    LET Written(r) ==
            [status |-> r.status,
             fs |-> MapSet(MapSet(MapSet(MapSet(fs, node_file_name, <<>>), edge_file_name, <<>>),
                                  node_file_name, NodeFileText(r.node_rows)),
                           edge_file_name, EdgeFileText(r.edge_rows)),
             node_rows |-> r.node_rows, edge_rows |-> r.edge_rows]
    IN  IF ~CanOpenOut(dirs, node_file_name)
          THEN [status |-> "throw", fs |-> fs, node_rows |-> <<>>, edge_rows |-> <<>>]
        ELSE IF ~CanOpenOut(dirs, edge_file_name)
          THEN [status |-> "throw", fs |-> MapSet(fs, node_file_name, <<>>),
                node_rows |-> <<>>, edge_rows |-> <<>>]
        ELSE Written(generate_graph(data, seed, hw))

\* write_m1_file on the files: [ok, fs].  A throw while writing leaves the
\* text written so far.
write_m1_file_to(fs, dirs, file_name, data) ==
    LET Written(r) == [ok |-> r.ok, fs |-> MapSet(fs, file_name, r.text)]
    IN  IF ~CanOpenOut(dirs, file_name) THEN [ok |-> FALSE, fs |-> fs]
        ELSE Written(write_m1_file(data))

\* read_m1_file on the files: [ok, data].
read_m1_file_from(fs, file_name) ==
    IF file_name \notin DOMAIN fs THEN [ok |-> FALSE, data |-> EmptyM1]
    ELSE read_m1_file(fs[file_name])

(***************************************************************************)
(* The state.  Three groups of variables, one per specification: the       *)
(* script runtime (main.cpp), one call of generate_graph with its workers  *)
(* step by step, and one call chain of the M1 functions.  A specification  *)
(* leaves the groups of the others as Init set them.                       *)
(***************************************************************************)
VARIABLES
    \* main.cpp
    fs,                   \* the files: path -> text
    dirs,                 \* the directories a file can be created in
    hw,                   \* std::thread::hardware_concurrency()
    instructions,         \* the instruction queue
    instruction_counter,  \* the 0-based index of the next instruction
    script_counter,
    generation_counter,
    active_model,
    has_active_model,
    rng_seeds,            \* the state of the runtime's generator
    status,               \* "running", "finished", "usage", "error", "undefined", "diverges"
    error,                \* what the uncaught exception is about
    trace,                \* history: the instructions begun, in order
    gen_log,              \* history: the calls of generate_graph
    \* generate_graph, step by step
    g_data, g_seed, g_hw, \* the arguments and the hardware concurrency
    g_pc,
    g_node_rows,          \* the rows of the node file
    g_edge_rows,          \* the rows of the edge file
    g_block_data,
    g_et,                 \* the 1-based index of the edge type in work
    g_rdm_gen,
    g_workers,            \* the calls of multithread_generate_graph of this edge type
    g_lock,               \* write_lock: 0, or the 1-based index of the worker that holds it
    \* the M1 functions
    f_op,                 \* the chain: "scale", "m1", "text", "compile", "tokenize", "parse", "observe", "pick",
                          \* "replace"
    f_model, f_scale,     \* the arguments
    f_in,                 \* the argument of a chain that starts from a text or a reader
    f_pc,
    f_out                 \* the values returned so far, in order

rt_vars ==
    <<fs, dirs, hw, instructions, instruction_counter, script_counter, generation_counter,
      active_model, has_active_model, rng_seeds, status, error, trace, gen_log>>

g_vars ==
    <<g_data, g_seed, g_hw, g_pc, g_node_rows, g_edge_rows, g_block_data, g_et, g_rdm_gen,
      g_workers, g_lock>>

f_vars == <<f_op, f_model, f_scale, f_in, f_pc, f_out>>

vars == <<rt_vars, g_vars, f_vars>>

\* The groups at rest.
RuntimeIdle ==
    /\ fs = EmptyMap /\ dirs = {} /\ hw = 1 /\ instructions = <<>>
    /\ instruction_counter = 0 /\ script_counter = 0 /\ generation_counter = 0
    /\ active_model = EmptyM1 /\ has_active_model = FALSE /\ rng_seeds = 0
    /\ status = "idle" /\ error = "none" /\ trace = <<>> /\ gen_log = <<>>

SamplerIdle ==
    /\ g_data = EmptyM1 /\ g_seed = 0 /\ g_hw = 1 /\ g_pc = "idle"
    /\ g_node_rows = <<>> /\ g_edge_rows = <<>> /\ g_block_data = <<>> /\ g_et = 0
    /\ g_rdm_gen = 0 /\ g_workers = <<>> /\ g_lock = 0

FunctionsIdle ==
    /\ f_op = "idle" /\ f_model = EmptyM1 /\ f_scale = <<1, 1>> /\ f_in = <<>> /\ f_pc = "idle"
    /\ f_out = <<>>

(***************************************************************************)
(* The script runtime (main.cpp).                                          *)
(***************************************************************************)
\* The bound of the length of the instruction queue: a script that includes
\* itself grows the queue for ever.
MaxInstructions == 8

\* starting_script: the arguments joined; an argument that starts with
\* neither '-' nor '+' is put in quotation marks.
RECURSIVE JoinArgs(_)
JoinArgs(args) ==
    IF args = <<>> THEN <<>>
    ELSE (IF Head(args) # <<>> /\ Head(args)[1] \in {"-", "+"}
            THEN <<" ">> \o Head(args)
            ELSE <<" ", "\"">> \o Head(args) \o <<"\"">>)
         \o JoinArgs(Tail(args))

StartingScript(args_raw) == args_raw[1] \o JoinArgs(Tail(args_raw))

\* std::seed_seq of the characters of a string, as the state it seeds.
SeedOfString(str) == RngSeeded(SumSeq([k \in DOMAIN str |-> CharCode(str[k])]) % RngMod)

\* The (node file, edge file) paths of the graphs of one -Generate.
GeneratePaths(g) ==
    IF g.n_to_generate = 1 THEN <<<<g.nodefile_path, g.edge_file_path>>>>
    ELSE [k \in 1..g.n_to_generate |->
            <<NumberedPath(g.nodefile_path, k - 1), NumberedPath(g.edge_file_path, k - 1)>>]

\* The calls of generate_graph of one -Generate, each with a fresh draw of
\* rng_seeds, up to the first that does not return:
\* [status, files, rng, log, edge_file].
RECURSIVE GenerateLoop(_, _, _, _, _, _)
GenerateLoop(files, ds, paths, data, rng, conc) ==
    IF paths = <<>>
      THEN [status |-> "ok", files |-> files, rng |-> rng, log |-> <<>>, edge_file |-> <<>>]
    ELSE LET Entry(d, r) ==
                 [data |-> data, seed |-> d.val, status |-> r.status,
                  node_file |-> Head(paths)[1], edge_file |-> Head(paths)[2],
                  node_rows |-> r.node_rows, edge_rows |-> r.edge_rows]
             Graph(d, r) ==
                 IF r.status # "ok"
                   THEN [status |-> r.status, files |-> r.fs, rng |-> d.state,
                         log |-> <<Entry(d, r)>>, edge_file |-> Head(paths)[2]]
                   ELSE [GenerateLoop(r.fs, ds, Tail(paths), data, d.state, conc)
                           EXCEPT !.log = <<Entry(d, r)>> \o @]
             Draw(d) ==
                 Graph(d, generate_graph_files(files, ds, Head(paths)[1], Head(paths)[2], data,
                                               d.val, conc))
         IN  Draw(RngDraw(rng))

\* What a run whose behaviour is undefined may leave at the end of the edge
\* file it was writing.
JunkTexts == {<<>>, <<"0", TAB, "0", TAB, "\n">>}

Current == instructions[instruction_counter + 1]

\* An insertion that leaves out the + 1: the new elements go before the
\* element at pos - 1.
InsertBefore(v, pos, new) == SubSeq(v, 1, pos - 1) \o new \o SubSeq(v, pos, Len(v))

\* std::vector::insert(begin() + pos, first, last).
Insert(v, pos, new) == SubSeq(v, 1, pos) \o new \o SubSeq(v, pos + 1, Len(v))

Begin(type) ==
    /\ status = "running"
    /\ instruction_counter < Len(instructions)
    /\ Current.type = type
    /\ trace' = Append(trace, Current)
    /\ UNCHANGED <<g_vars, f_vars>>

\* An exception nothing catches: the run ends at this instruction.
Throw(what) == status' = "error" /\ error' = what

Completed ==
    /\ instruction_counter' = instruction_counter + 1
    /\ UNCHANGED <<status, error>>

IRead ==
    /\ Begin("IRead")
    /\ LET Read(d, o) ==
               /\ rng_seeds' = d.state
               /\ IF o.ok
                    THEN \E nt_order \in Orders(ContainerTypes(o.g)),
                            ed_order \in Orders(o.g.edge_colors) :
                            /\ active_model' =
                                   process(o.g, Current.read.data, d.val, nt_order, ed_order)
                            /\ has_active_model' = TRUE
                            /\ Completed
                    ELSE /\ Throw("read")
                         /\ UNCHANGED <<active_model, has_active_model, instruction_counter>>
       IN  Read(RngDraw(rng_seeds), Observe(fs, Current.read))
    /\ UNCHANGED <<fs, dirs, hw, instructions, script_counter, generation_counter, gen_log>>

IExecute ==
    /\ Begin("IExecute")
    /\ LET Spliced(r) ==
               IF r.status # "ok"
                 THEN /\ status' = (IF r.status = "throw" THEN "error" ELSE r.status)
                      /\ error' = "script"
                      /\ UNCHANGED <<instructions, instruction_counter, script_counter>>
               ELSE /\ Len(instructions) + Len(r.instructions) <= MaxInstructions
                    /\ instructions' = Insert(instructions, instruction_counter + 1, r.instructions)
                    /\ script_counter' = script_counter + 1
                    /\ Completed
       IN  IF Current.execute.scriptfile_path \notin DOMAIN fs
             THEN /\ Throw("execute")
                  /\ UNCHANGED <<instructions, instruction_counter, script_counter>>
             ELSE Spliced(ParseScript(fs[Current.execute.scriptfile_path],
                                      Current.execute.replace_templates))
    /\ UNCHANGED <<fs, dirs, hw, generation_counter, active_model, has_active_model, rng_seeds,
                   gen_log>>

IGenerate ==
    /\ Begin("IGenerate")
    /\ IF ~has_active_model
         THEN /\ Throw("no active model")
              /\ UNCHANGED <<fs, active_model, rng_seeds, generation_counter, gen_log,
                             instruction_counter>>
         ELSE LET Generated(r) ==
                      /\ rng_seeds' = r.rng
                      /\ gen_log' = gen_log \o r.log
                      /\ generation_counter' =
                             generation_counter + Len(SelectSeq(r.log, LAMBDA e : e.status = "ok"))
                      /\ IF r.status = "ok" THEN fs' = r.files /\ Completed
                         ELSE IF r.status = "throw"
                           THEN fs' = r.files /\ Throw("generate") /\ UNCHANGED instruction_counter
                         ELSE /\ \E junk \in JunkTexts :
                                    fs' = [r.files EXCEPT ![r.edge_file] = @ \o junk]
                              /\ status' = "undefined"
                              /\ UNCHANGED <<error, instruction_counter>>
                  Scaled(model) ==
                      /\ active_model' = model
                      /\ Generated(GenerateLoop(fs, dirs, GeneratePaths(Current.generate), model,
                                                rng_seeds, hw))
              IN  Scaled(IF MapContains(active_model.meta.values, KeySCALE) THEN active_model
                         ELSE [active_model EXCEPT
                                 !.meta.values = MapSet(@, KeySCALE, DefaultScale)])
    /\ UNCHANGED <<dirs, hw, instructions, script_counter, has_active_model>>

IScale ==
    /\ Begin("IScale")
    /\ IF ~has_active_model
         THEN Throw("no active model") /\ UNCHANGED <<active_model, instruction_counter>>
         ELSE LET Scaled(r) ==
                      IF r.ok THEN active_model' = r.result /\ Completed
                      ELSE Throw("scale") /\ UNCHANGED <<active_model, instruction_counter>>
              IN  Scaled(scale_m1_data(active_model, Current.f_val))
    /\ UNCHANGED <<fs, dirs, hw, instructions, script_counter, generation_counter,
                   has_active_model, rng_seeds, gen_log>>

\* A save without the test of has_active_model.
ISaveUnguarded ==
    /\ Begin("ISave")
    /\ LET Saved(r) ==
               /\ fs' = r.fs
               /\ IF r.ok THEN Completed
                  ELSE Throw("save") /\ UNCHANGED instruction_counter
       IN  Saved(write_m1_file_to(fs, dirs, Current.s_val, active_model))
    /\ UNCHANGED <<dirs, hw, instructions, script_counter, generation_counter, active_model,
                   has_active_model, rng_seeds, gen_log>>

ISave ==
    /\ Begin("ISave")
    /\ IF ~has_active_model
         THEN Throw("no active model") /\ UNCHANGED <<fs, instruction_counter>>
         ELSE LET Saved(r) ==
                      /\ fs' = r.fs
                      /\ IF r.ok THEN Completed
                         ELSE Throw("save") /\ UNCHANGED instruction_counter
              IN  Saved(write_m1_file_to(fs, dirs, Current.s_val, active_model))
    /\ UNCHANGED <<dirs, hw, instructions, script_counter, generation_counter, active_model,
                   has_active_model, rng_seeds, gen_log>>

\* has_active_model is not assigned here.
ILoad ==
    /\ Begin("ILoad")
    /\ LET Loaded(r) ==
               IF r.ok THEN active_model' = r.data /\ Completed
               ELSE Throw("load") /\ UNCHANGED <<active_model, instruction_counter>>
       IN  Loaded(read_m1_file_from(fs, Current.s_val))
    /\ UNCHANGED <<fs, dirs, hw, instructions, script_counter, generation_counter,
                   has_active_model, rng_seeds, gen_log>>

ISeed ==
    /\ Begin("ISeed")
    /\ rng_seeds' = SeedOfString(Current.s_val)
    /\ Completed
    /\ UNCHANGED <<fs, dirs, hw, instructions, script_counter, generation_counter, active_model,
                   has_active_model, gen_log>>

IHelp ==
    /\ Begin("IHelp")
    /\ Completed
    /\ UNCHANGED <<fs, dirs, hw, instructions, script_counter, generation_counter, active_model,
                   has_active_model, rng_seeds, gen_log>>

\* The loop ends: instruction_counter has reached available_instructions.
Finished ==
    /\ status = "running"
    /\ instruction_counter >= Len(instructions)
    /\ status' = "finished"
    /\ UNCHANGED <<fs, dirs, hw, instructions, instruction_counter, script_counter,
                   generation_counter, active_model, has_active_model, rng_seeds, error, trace,
                   gen_log, g_vars, f_vars>>

(***************************************************************************)
(* The runs of the model: the files present at the start and the command   *)
(* lines.                                                                  *)
(***************************************************************************)
\* A node file: three nodes of two types.  "i\tt\n1\ta\n2\ta\n3\tb\n"
NodeTsv ==
    <<"i", "\t", "t", "\n", "1", "\t", "a", "\n", "2", "\t", "a", "\n", "3", "\t", "b",
      "\n">>

\* A node file of one node.  "i\tt\n1\ta\n"
NodeTsvOne == <<"i", "\t", "t", "\n", "1", "\t", "a", "\n">>

\* An edge file whose endpoints are all in NodeTsv.  "s\td\tt\n1\t3\te\n2\t3\te\n1\t2\te\n"
EdgeTsv ==
    <<"s", "\t", "d", "\t", "t", "\n", "1", "\t", "3", "\t", "e", "\n", "2", "\t", "3",
      "\t", "e", "\n", "1", "\t", "2", "\t", "e", "\n">>

\* An edge file with destinations that neither node file lists.  "s\td\tt\n1\t7\te\n1\t8\te\n1\t9\te\n"
EdgeTsvUnobserved ==
    <<"s", "\t", "d", "\t", "t", "\n", "1", "\t", "7", "\t", "e", "\n", "1", "\t", "8",
      "\t", "e", "\n", "1", "\t", "9", "\t", "e", "\n">>

\* A model file.  "# META\nNAME=g\nSCALE=1.0\n\n# NODES\n0.000000,3.000000,a\n\n# EDGES=e\n0.000000,3.000000,0.000000,3.000000,0.500000\n"
ModelM1 ==
    <<"#", " ", "M", "E", "T", "A", "\n", "N", "A", "M", "E", "=", "g", "\n", "S", "C",
      "A", "L", "E", "=", "1", ".", "0", "\n", "\n", "#", " ", "N", "O", "D", "E", "S",
      "\n", "0", ".", "0", "0", "0", "0", "0", "0", ",", "3", ".", "0", "0", "0", "0", "0",
      "0", ",", "a", "\n", "\n", "#", " ", "E", "D", "G", "E", "S", "=", "e", "\n", "0",
      ".", "0", "0", "0", "0", "0", "0", ",", "3", ".", "0", "0", "0", "0", "0", "0", ",",
      "0", ".", "0", "0", "0", "0", "0", "0", ",", "3", ".", "0", "0", "0", "0", "0", "0",
      ",", "0", ".", "5", "0", "0", "0", "0", "0", "\n">>

\* A model file without the key SCALE.  "# META\nNAME=g\n\n# NODES\n0.000000,3.000000,a\n\n# EDGES=e\n0.000000,3.000000,0.000000,3.000000,0.500000\n"
ModelM1Plain ==
    <<"#", " ", "M", "E", "T", "A", "\n", "N", "A", "M", "E", "=", "g", "\n", "\n", "#", " ",
      "N", "O", "D", "E", "S", "\n", "0", ".", "0", "0", "0", "0", "0", "0", ",", "3", ".",
      "0", "0", "0", "0", "0", "0", ",", "a", "\n", "\n", "#", " ", "E", "D", "G", "E", "S",
      "=", "e", "\n", "0", ".", "0", "0", "0", "0", "0", "0", ",", "3", ".", "0", "0", "0",
      "0", "0", "0", ",", "0", ".", "0", "0", "0", "0", "0", "0", ",", "3", ".", "0", "0", "0",
      "0", "0", "0", ",", "0", ".", "5", "0", "0", "0", "0", "0", "\n">>

\* A script that includes ScriptT.  "-Seed 7\n-Execute t\n-Help\n"
ScriptS ==
    <<"-", "S", "e", "e", "d", " ", "7", "\n", "-", "E", "x", "e", "c", "u", "t", "e", " ",
      "t", "\n", "-", "H", "e", "l", "p", "\n">>

\* A script.  "-Read +nodefile n +edgefile e\n-Generate o p 1\n"
ScriptT ==
    <<"-", "R", "e", "a", "d", " ", "+", "n", "o", "d", "e", "f", "i", "l", "e", " ", "n",
      " ", "+", "e", "d", "g", "e", "f", "i", "l", "e", " ", "e", "\n", "-", "G", "e", "n",
      "e", "r", "a", "t", "e", " ", "o", " ", "p", " ", "1", "\n">>

\* A script that includes itself.  "-Help -Execute u"
ScriptU ==
    <<"-", "H", "e", "l", "p", " ", "-", "E", "x", "e", "c", "u", "t", "e", " ", "u">>

\* A script with an unknown tag.  "-Help -Bogus"
ScriptBad ==
    <<"-", "H", "e", "l", "p", " ", "-", "B", "o", "g", "u", "s">>

\* A script that includes ScriptBad after a -Help.  "-Help -Execute b -Seed 1"
ScriptC ==
    <<"-", "H", "e", "l", "p", " ", "-", "E", "x", "e", "c", "u", "t", "e", " ", "b", " ", "-",
      "S", "e", "e", "d", " ", "1">>

\* A script with the template X.  "-Load m -Save X"
ScriptV ==
    <<"-", "L", "o", "a", "d", " ", "m", " ", "-", "S", "a", "v", "e", " ", "X">>

InitialFiles ==
    (<<"n">> :> NodeTsv)
    @@ (<<"y">> :> NodeTsvOne)
    @@ (<<"e">> :> EdgeTsv)
    @@ (<<"x">> :> EdgeTsvUnobserved)
    @@ (<<"m">> :> ModelM1)
    @@ (<<"w">> :> ModelM1Plain)
    @@ (<<"s">> :> ScriptS)
    @@ (<<"t">> :> ScriptT)
    @@ (<<"u">> :> ScriptU)
    @@ (<<"b">> :> ScriptBad)
    @@ (<<"c">> :> ScriptC)
    @@ (<<"v">> :> ScriptV)

\* The current directory and the directory d exist; the root directory is
\* not writable.
InitialDirs == {<<>>, <<"d">>}

\* The command lines: argv without the program name.
CommandLines ==
    {<<<<"-", "R", "e", "a", "d">>, <<"+", "n", "o", "d", "e", "f", "i", "l", "e">>, <<"n">>, <<"+", "e", "d", "g", "e", "f", "i", "l", "e">>, <<"e">>, <<"-", "S", "c", "a", "l", "e">>, <<"2">>, <<"-", "G", "e", "n", "e", "r", "a", "t", "e">>, <<"o">>, <<"p">>, <<"1">>, <<"-", "S", "a", "v", "e">>, <<"q">>>>,
     <<<<"-", "R", "e", "a", "d">>, <<"+", "n", "o", "d", "e", "f", "i", "l", "e">>, <<"y">>, <<"+", "e", "d", "g", "e", "f", "i", "l", "e">>, <<"x">>, <<"-", "G", "e", "n", "e", "r", "a", "t", "e">>, <<"o">>, <<"p">>, <<"1">>>>,
     <<<<"-", "R", "e", "a", "d">>, <<"+", "n", "o", "d", "e", "f", "i", "l", "e">>, <<"n">>, <<"+", "e", "d", "g", "e", "f", "i", "l", "e">>, <<"e">>, <<"-", "S", "c", "a", "l", "e">>, <<"0", ".", "5">>, <<"-", "G", "e", "n", "e", "r", "a", "t", "e">>, <<"o">>, <<"p">>, <<"1">>>>,
     <<<<"-", "R", "e", "a", "d">>, <<"+", "n", "o", "d", "e", "f", "i", "l", "e">>, <<"n">>, <<"+", "e", "d", "g", "e", "f", "i", "l", "e">>, <<"e">>, <<"-", "L", "o", "a", "d">>, <<"m">>, <<"-", "G", "e", "n", "e", "r", "a", "t", "e">>, <<"d", "/", "o", ".", "t", "s", "v">>, <<"d", "/", "p", ".", "t", "s", "v">>, <<"2">>>>,
     <<<<"-", "R", "e", "a", "d">>, <<"+", "n", "o", "d", "e", "f", "i", "l", "e">>, <<"n">>, <<"+", "e", "d", "g", "e", "f", "i", "l", "e">>, <<"e">>, <<"-", "G", "e", "n", "e", "r", "a", "t", "e">>, <<"o">>, <<"/", "p">>, <<"1">>>>,
     <<<<"-", "R", "e", "a", "d">>, <<"+", "n", "o", "d", "e", "f", "i", "l", "e">>, <<"z", "z">>, <<"-", "H", "e", "l", "p">>>>,
     <<<<"-", "L", "o", "a", "d">>, <<"m">>, <<"-", "S", "a", "v", "e">>, <<"q">>>>,
     <<<<"-", "L", "o", "a", "d">>, <<"m">>, <<"-", "G", "e", "n", "e", "r", "a", "t", "e">>, <<"o">>, <<"p">>, <<"1">>>>,
     <<<<"-", "L", "o", "a", "d">>, <<"m">>, <<"-", "S", "c", "a", "l", "e">>, <<"2">>>>,
     <<<<"-", "L", "o", "a", "d">>, <<"z", "z">>, <<"-", "H", "e", "l", "p">>>>,
     <<<<"-", "L", "o", "a", "d">>, <<"m">>, <<"-", "R", "e", "a", "d">>, <<"+", "n", "o", "d", "e", "f", "i", "l", "e">>, <<"n">>, <<"+", "e", "d", "g", "e", "f", "i", "l", "e">>, <<"e">>, <<"-", "S", "a", "v", "e">>, <<"q">>>>,
     <<<<"-", "G", "e", "n", "e", "r", "a", "t", "e">>, <<"o">>, <<"p">>, <<"1">>, <<"-", "H", "e", "l", "p">>>>,
     <<<<"-", "S", "c", "a", "l", "e">>, <<"2">>, <<"-", "H", "e", "l", "p">>>>,
     <<<<"-", "S", "a", "v", "e">>, <<"q">>, <<"-", "H", "e", "l", "p">>>>,
     <<<<"-", "S", "e", "e", "d">>, <<"k">>, <<"-", "G", "e", "n", "e", "r", "a", "t", "e">>, <<"o">>, <<"p">>, <<"1">>>>,
     <<<<"-", "E", "x", "e", "c", "u", "t", "e">>, <<"s">>, <<"-", "S", "a", "v", "e">>, <<"q">>>>,
     <<<<"-", "E", "x", "e", "c", "u", "t", "e">>, <<"u">>, <<"-", "S", "e", "e", "d">>, <<"k">>>>,
     <<<<"-", "E", "x", "e", "c", "u", "t", "e">>, <<"b">>, <<"-", "H", "e", "l", "p">>>>,
     <<<<"-", "E", "x", "e", "c", "u", "t", "e">>, <<"z", "z">>, <<"-", "H", "e", "l", "p">>>>,
     <<<<"-", "E", "x", "e", "c", "u", "t", "e">>, <<"v">>, <<"X">>, <<"q">>, <<"-", "H", "e", "l", "p">>>>,
     <<<<"-", "H", "e", "l", "p">>, <<"-", "B", "o", "g", "u", "s">>>>,
     <<<<"-", "R", "e", "a", "d">>, <<"+", "n", "o", "d", "e", "f", "i", "l", "e">>, <<"n">>, <<"+", "e", "d", "g", "e", "f", "i", "l", "e">>, <<"e">>, <<"-", "G", "e", "n", "e", "r", "a", "t", "e">>, <<"d", "/", "o", ".", "t">>, <<"d", "/", "p">>, <<"2">>>>,
     <<<<"-", "R", "e", "a", "d">>, <<"+", "n", "o", "d", "e", "f", "i", "l", "e">>, <<"n">>, <<"+", "e", "d", "g", "e", "f", "i", "l", "e">>, <<"e">>, <<"-", "G", "e", "n", "e", "r", "a", "t", "e">>, <<"o", ".", "t">>, <<"p">>, <<"2">>>>,
     <<<<"-", "R", "e", "a", "d">>, <<"+", "n", "o", "d", "e", "f", "i", "l", "e">>, <<"n">>, <<"+", "e", "d", "g", "e", "f", "i", "l", "e">>, <<"e">>, <<"-", "G", "e", "n", "e", "r", "a", "t", "e">>, <<"o", ".", "t">>, <<"p">>, <<"0">>>>,
     <<<<"-", "R", "e", "a", "d">>, <<"+", "n", "o", "d", "e", "f", "i", "l", "e">>, <<"n">>, <<"+", "e", "d", "g", "e", "f", "i", "l", "e">>, <<"e">>, <<"-", "L", "o", "a", "d">>, <<"w">>, <<"-", "G", "e", "n", "e", "r", "a", "t", "e">>, <<"o">>, <<"p">>, <<"1">>, <<"-", "S", "a", "v", "e">>, <<"q">>>>,
     <<<<"-", "E", "x", "e", "c", "u", "t", "e">>, <<"c">>, <<"-", "S", "a", "v", "e">>, <<"q">>>>,
     <<>>}

\* The bound of the values std::random_device seeds rng_seeds with.
MaxEntropy == 1

\* The bound of std::thread::hardware_concurrency().
MaxHW == 4

\* main up to the loop: the command line is tokenized and parsed.
Init ==
    /\ \E args_raw \in CommandLines, entropy \in 0..MaxEntropy, conc \in 1..MaxHW :
          LET Parsed(r) ==
                  /\ instructions = (IF r.status = "ok" THEN r.instructions ELSE <<>>)
                  /\ status = (IF r.status = "ok" THEN "running"
                               ELSE IF r.status = "throw" THEN "error"
                               ELSE r.status)
                  /\ error = (IF r.status # "ok" THEN "script" ELSE "none")
          IN  /\ hw = conc
              /\ rng_seeds = RngSeeded(entropy)
              /\ IF args_raw = <<>>
                   THEN instructions = <<>> /\ status = "usage" /\ error = "none"
                   ELSE Parsed(ParseScript(StartingScript(args_raw), <<>>))
    /\ fs = InitialFiles
    /\ dirs = InitialDirs
    /\ instruction_counter = 0
    /\ script_counter = 0
    /\ generation_counter = 0
    /\ active_model = EmptyM1
    /\ has_active_model = FALSE
    /\ trace = <<>>
    /\ gen_log = <<>>
    /\ SamplerIdle
    /\ FunctionsIdle

Next ==
    \/ IRead
    \/ IExecute
    \/ IGenerate
    \/ IScale
    \/ ISave
    \/ ILoad
    \/ ISeed
    \/ IHelp
    \/ Finished

Spec == Init /\ [][Next]_vars

(***************************************************************************)
(* Properties of the script runtime, under Spec.                           *)
(***************************************************************************)
IsPrefix(s, t) == Len(s) <= Len(t) /\ SubSeq(t, 1, Len(s)) = s

Agree(s, t) == \A k \in 1..Min(Len(s), Len(t)) : s[k] = t[k]

TypesOf(s) == [k \in DOMAIN s |-> s[k].type]

\* The instructions that were begun and completed are trace[1..instruction_counter].
NoneOf(types) == \A k \in 1..Len(trace) : trace[k].type \notin types

\* C1: once a -Load has completed, a -Save, -Scale or -Generate of the same
\* run, with no -Read before it, does not fail for want of an active model.
C1_LoadActivates ==
    (status = "error" /\ error = "no active model" /\ NoneOf({"IRead"}))
    => \A k \in 1..(Len(trace) - 1) : trace[k].type # "ILoad"

\* C2: a -Generate, -Scale or -Save reached while no -Read and no -Load has
\* completed stops the run with an error: the step writes no file, changes no
\* model and does not advance, and after it no instruction is begun.
C2_Reached ==
    /\ status = "running"
    /\ instruction_counter < Len(instructions)
    /\ Current.type \in {"IGenerate", "IScale", "ISave"}
    /\ NoneOf({"IRead", "ILoad"})

C2_NoModelStops ==
    [][/\ (C2_Reached /\ trace' # trace)
          => /\ status' = "error"
             /\ trace' = Append(trace, Current)
             /\ fs' = fs
             /\ active_model' = active_model
             /\ instruction_counter' = instruction_counter
       /\ status = "error" => (status' = "error" /\ trace' = trace /\ fs' = fs)]_vars

\* A run that a -Generate without a model has stopped: the -Help after it is
\* never begun.
C2_Witness ==
    /\ status = "error" /\ error = "no active model"
    /\ NoneOf({"IRead", "ILoad"})
    /\ trace[Len(trace)].type = "IGenerate"
    /\ Len(trace) < Len(instructions)
    /\ fs = InitialFiles /\ active_model = EmptyM1

\* The first n instructions a run of queue executes when every -Execute is
\* replaced, depth first, by itself followed by the instructions of its
\* script; a script that cannot be read or parsed ends the run.
RECURSIVE PreOrder(_, _, _)
PreOrder(files, queue, n) ==
    IF n = 0 \/ queue = <<>> THEN <<>>
    ELSE IF Head(queue).type # "IExecute"
      THEN <<Head(queue)>> \o PreOrder(files, Tail(queue), n - 1)
    ELSE IF Head(queue).execute.scriptfile_path \notin DOMAIN files THEN <<Head(queue)>>
    ELSE LET Included(r) ==
                 IF r.status # "ok" THEN <<Head(queue)>>
                 ELSE <<Head(queue)>> \o PreOrder(files, r.instructions \o Tail(queue), n - 1)
         IN  Included(ParseScript(files[Head(queue).execute.scriptfile_path],
                                  Head(queue).execute.replace_templates))

\* What the run executes, as the queue of this state has it: the completed
\* instructions, then the rest of the queue with its inclusions.
ScheduleOf(done, files, queue, cursor) ==
    SubSeq(done, 1, cursor)
    \o PreOrder(files, SubSeq(queue, cursor + 1, Len(queue)), MaxInstructions + 1)

\* C3: the instructions of an executed script run next, in order, before the
\* instruction that followed the -Execute, nested inclusions too; nothing at
\* or before the cursor runs again and the rest keeps its order.  The
\* instruction a step begins is the one the depth-first order of the queue
\* foretold, and no step changes what that order foretells.
C3_SplicedInOrder ==
    [][/\ IsPrefix(trace, trace') /\ Len(trace') <= Len(trace) + 1
       /\ IsPrefix(trace', ScheduleOf(trace, fs, instructions, instruction_counter))
       /\ Agree(ScheduleOf(trace, fs, instructions, instruction_counter),
                ScheduleOf(trace', fs', instructions', instruction_counter'))]_vars

\* -Execute s -Save q has run: s included t, and the -Save came last.
C3_Witness ==
    /\ status = "finished"
    /\ script_counter = 2
    /\ TypesOf(trace) = <<"IExecute", "ISeed", "IExecute", "IRead", "IGenerate", "IHelp", "ISave">>

\* The ids of the rows of a node file.
NodeIds(node_rows) == {node_rows[k][1] : k \in DOMAIN node_rows}

\* The model has a block of the row's edge type whose rectangle holds it.
InSomeBlock(data, row) ==
    \E r \in Range(data.edges) :
        /\ r.edge_type = row[3]
        /\ \E b \in Range(r.blocks) :
              /\ Floor(b.startX) + 1 <= row[1] /\ row[1] <= Floor(b.endX)
              /\ Floor(b.startY) + 1 <= row[2] /\ row[2] <= Floor(b.endY)

\* C6: with a model that -Read and -Scale made, every edge a -Generate
\* writes lies in a block of its edge type, and both its ends are ids of the
\* node file written with it.
C6_EdgesInBlocksAndNodes ==
    NoneOf({"ILoad"})
    => \A k \in DOMAIN gen_log :
          gen_log[k].status = "ok"
          => \A j \in DOMAIN gen_log[k].edge_rows :
                /\ InSomeBlock(gen_log[k].data, gen_log[k].edge_rows[j])
                /\ gen_log[k].edge_rows[j][1] \in NodeIds(gen_log[k].node_rows)
                /\ gen_log[k].edge_rows[j][2] \in NodeIds(gen_log[k].node_rows)

(***************************************************************************)
(* generate_graph step by step (Generator.cpp), with both files open: the  *)
(* main thread and the workers of one edge type interleave.  What a worker *)
(* does between two writes to the output touches only its own buffer, so   *)
(* it is one step.                                                         *)
(***************************************************************************)
\* The bound of the seeds generate_graph is called with.
MaxGenSeed == 1

\* The bound of the number of blocks of an edge type: it is above the
\* threshold of the threaded path.
ManyBlocks == 101

\* n blocks of one column and three rows, one below the other.
ColumnBlocks(n, p) ==
    [k \in 1..n |-> Edge_Block(IntR(0), IntR(1), IntR(3 * (k - 1)), IntR(3 * k), p)]

GenModel(last_id, edges) ==
    [meta |-> Meta_Record(<<"g">>, (KeySCALE :> DefaultScale)),
     nodes |-> <<Node_Record(IntR(0), IntR(last_id), <<"a">>)>>,
     edges |-> edges]

\* An edge type of ManyBlocks blocks.
ModelMany == GenModel(3 * ManyBlocks, <<Edge_Record(<<"e">>, ColumnBlocks(ManyBlocks, <<1, 2>>))>>)

\* An edge type of ManyBlocks - 1 blocks.
ModelManyLessOne ==
    GenModel(3 * ManyBlocks, <<Edge_Record(<<"e">>, ColumnBlocks(ManyBlocks - 1, <<1, 2>>))>>)

\* The edge type d has only degenerate blocks, as a downscaled model has;
\* the edge type e after it has a block of 2 x 3 cells.
ModelDegenerate ==
    GenModel(3,
             <<Edge_Record(<<"d">>,
                           <<Edge_Block(<<1, 5>>, <<1, 2>>, IntR(0), IntR(3), <<1, 2>>),
                             Edge_Block(IntR(0), IntR(3), <<6, 5>>, <<9, 5>>, <<1, 1>>)>>),
               Edge_Record(<<"e">>, <<Edge_Block(IntR(0), IntR(2), IntR(0), IntR(3), <<1, 2>>)>>)>>)

\* Blocks whose clamped probability is 1: a column of three cells, a row of
\* three cells and, with the probability 3/2, a square of four.
ModelFull ==
    GenModel(9,
             <<Edge_Record(<<"c">>, <<Edge_Block(IntR(0), IntR(1), IntR(0), IntR(3), <<1, 1>>)>>),
               Edge_Record(<<"r">>, <<Edge_Block(IntR(3), IntR(6), IntR(3), IntR(4), <<1, 1>>)>>),
               Edge_Record(<<"s">>, <<Edge_Block(IntR(6), IntR(8), IntR(6), IntR(8), <<3, 2>>)>>)>>)

\* An edge type of MAX_ALLOWED_TYPE_LENGTH + 1 characters.
ModelLongType ==
    GenModel(3,
             <<Edge_Record(<<"e">>, ColumnBlocks(1, <<1, 2>>)),
               Edge_Record([k \in 1..(MAX_ALLOWED_TYPE_LENGTH + 1) |-> "t"],
                           ColumnBlocks(1, <<1, 2>>))>>)

\* Node records with fractional endpoints, as a scaled model has: the
\* second has no integer in (3/2, 7/4].
ModelFractions ==
    [meta |-> Meta_Record(<<"g">>, (KeySCALE :> DefaultScale)),
     nodes |-> <<Node_Record(IntR(0), <<3, 2>>, <<"a">>),
                 Node_Record(<<3, 2>>, <<7, 4>>, <<"b">>),
                 Node_Record(<<7, 4>>, <<7, 2>>, <<"c">>)>>,
     edges |-> <<Edge_Record(<<"e">>, ColumnBlocks(1, <<1, 2>>))>>]

\* An edge type of ManyBlocks blocks, then one of two blocks.
ModelManyThenTwo ==
    GenModel(3 * ManyBlocks,
             <<Edge_Record(<<"e">>, ColumnBlocks(ManyBlocks, <<1, 2>>)),
               Edge_Record(<<"f">>, ColumnBlocks(2, <<1, 1>>))>>)

GenModels ==
    {ModelMany, ModelManyLessOne, ModelDegenerate, ModelFull, ModelLongType, ModelFractions,
     ModelManyThenTwo}

\* What a read outside the vector may add to the output.
JunkRows(e_type) == {<<>>, <<<<0, 0, e_type>>>>}

\* The worker up to its next write to the output: the turns of the loop
\* over the blocks up to one that flushes the buffer, at most n of them.
RECURSIVE WorkerToWrite(_, _, _, _)
WorkerToWrite(w, data, e_type, n) ==
    IF n = 0 \/ ~WorkerRunning(w) \/ w.written # <<>> THEN w
    ELSE IF n = 1 THEN WorkerBlock(w, data, e_type)
    ELSE LET Rest(half) ==
                 \* the test has the first half evaluated before the second starts
                 IF half.ub \in BOOLEAN THEN WorkerToWrite(half, data, e_type, n - (n \div 2))
                 ELSE half
         IN  Rest(WorkerToWrite(w, data, e_type, n \div 2))

GenBlock == g_block_data[g_et].block

GenType == g_block_data[g_et].e_type

InitGen ==
    /\ RuntimeIdle
    /\ FunctionsIdle
    /\ g_data \in GenModels
    /\ g_seed \in 0..MaxGenSeed
    /\ g_hw \in 1..MaxHW
    /\ g_pc = "nodes"
    /\ g_node_rows = <<>> /\ g_edge_rows = <<>> /\ g_block_data = <<>> /\ g_et = 0
    /\ g_rdm_gen = 0 /\ g_workers = <<>> /\ g_lock = 0

\* The node file is written and closed.
GenNodes ==
    /\ g_pc = "nodes"
    /\ g_node_rows' = NodeRows(g_data.nodes)
    /\ g_pc' = "convert"
    /\ UNCHANGED <<g_lock, g_data, g_seed, g_hw, g_edge_rows, g_block_data, g_et, g_rdm_gen, g_workers,
                   rt_vars, f_vars>>

\* block_data is filled and rdm_gen is seeded.
GenConvert ==
    /\ g_pc = "convert"
    /\ LET Converted(bd) ==
               IF ~bd.ok THEN g_pc' = "throw" /\ UNCHANGED <<g_block_data, g_rdm_gen, g_et>>
               ELSE /\ g_block_data' = bd.res
                    /\ g_rdm_gen' = RngSeeded(g_seed)
                    /\ g_et' = 1
                    /\ g_pc' = "types"
       IN  Converted(BlockData(g_data.edges))
    /\ UNCHANGED <<g_lock, g_data, g_seed, g_hw, g_node_rows, g_edge_rows, g_workers, rt_vars, f_vars>>

\* An edge type of fewer than 100 blocks: the main thread makes the call.
GenInline ==
    /\ g_pc = "types"
    /\ g_et <= Len(g_block_data)
    /\ Len(GenBlock) < MIN_THREADED_BLOCKS
    /\ LET Called(r, state) ==
               /\ g_rdm_gen' = state
               /\ IF r.ub
                    THEN /\ \E junk \in JunkRows(GenType) :
                               g_edge_rows' = g_edge_rows \o r.rows \o junk
                         /\ g_pc' = "undefined"
                         /\ UNCHANGED g_et
                    ELSE /\ g_edge_rows' = g_edge_rows \o r.rows
                         /\ g_et' = g_et + 1
                         /\ UNCHANGED g_pc
           Drawn(d) ==
               Called(multithread_generate_graph(GenBlock, 0, SizeDec(Len(GenBlock)), d.val,
                                                 GenType),
                      d.state)
       IN  Drawn(RngDraw(g_rdm_gen))
    /\ UNCHANGED <<g_lock, g_data, g_seed, g_hw, g_node_rows, g_block_data, g_workers, rt_vars, f_vars>>

\* The threads of an edge type of 100 blocks or more are started, each with
\* its range and a seed drawn from rdm_gen.
GenSpawn ==
    /\ g_pc = "types"
    /\ g_et <= Len(g_block_data)
    /\ Len(GenBlock) >= MIN_THREADED_BLOCKS
    /\ LET Started(ranges, ds) ==
               /\ g_workers' = [k \in DOMAIN ranges |->
                                   [st |-> WorkerInit(ranges[k].idx_start, ranges[k].idx_end,
                                                      ds.seeds[k]),
                                    pc |-> "run"]]
               /\ g_rdm_gen' = ds.state
       IN  Started(ThreadRanges(Len(GenBlock), NThreads(g_hw)),
                   DrawSeeds(g_rdm_gen, NThreads(g_hw)))
    /\ g_pc' = "threads"
    /\ UNCHANGED <<g_lock, g_data, g_seed, g_hw, g_node_rows, g_edge_rows, g_block_data, g_et, rt_vars,
                   f_vars>>

\* Worker k runs up to its next write: a write of the full buffer, under
\* the lock, or the end of its workload.
WorkerStep(k) ==
    /\ g_pc = "threads"
    /\ g_workers[k].pc = "run"
    /\ LET Stepped(w) ==
               IF w.ub
                 THEN /\ \E junk \in JunkRows(GenType) :
                            g_edge_rows' = g_edge_rows \o w.written \o junk
                      /\ g_workers' = [g_workers EXCEPT ![k] = [st |-> w, pc |-> "undefined"]]
                      /\ g_pc' = "undefined"
                 ELSE /\ g_edge_rows' = g_edge_rows \o w.written
                      /\ g_workers' =
                             [g_workers EXCEPT
                                ![k] = [st |-> [w EXCEPT !.written = <<>>],
                                        pc |-> IF WorkerRunning(w) THEN "run" ELSE "flush"]]
                      /\ UNCHANGED g_pc
       IN  Stepped(WorkerToWrite(g_workers[k].st, GenBlock, GenType, Len(GenBlock) + 1))
    /\ UNCHANGED <<g_lock, g_data, g_seed, g_hw, g_node_rows, g_block_data, g_et, g_rdm_gen, rt_vars,
                   f_vars>>

\* A worker that returns with what is left in its buffer unwritten.
WorkerFinishUnwritten(k) ==
    /\ g_pc = "threads"
    /\ g_workers[k].pc = "flush"
    /\ g_workers' = [g_workers EXCEPT ![k].pc = "done"]
    /\ UNCHANGED <<g_lock, g_data, g_seed, g_hw, g_pc, g_node_rows, g_edge_rows, g_block_data, g_et,
                   g_rdm_gen, rt_vars, f_vars>>

\* Worker k writes what is left in its buffer, under the lock, and returns.
WorkerFinish(k) ==
    /\ g_pc = "threads"
    /\ g_workers[k].pc = "flush"
    /\ g_edge_rows' = g_edge_rows \o WorkerFinalRows(g_workers[k].st)
    /\ g_workers' = [g_workers EXCEPT ![k].pc = "done"]
    /\ UNCHANGED <<g_lock, g_data, g_seed, g_hw, g_pc, g_node_rows, g_block_data, g_et, g_rdm_gen,
                   rt_vars, f_vars>>

\* All threads are joined: the next edge type.
GenJoin ==
    /\ g_pc = "threads"
    /\ \A k \in DOMAIN g_workers : g_workers[k].pc = "done"
    /\ g_workers' = <<>>
    /\ g_et' = g_et + 1
    /\ g_pc' = "types"
    /\ UNCHANGED <<g_lock, g_data, g_seed, g_hw, g_node_rows, g_edge_rows, g_block_data, g_rdm_gen,
                   rt_vars, f_vars>>

\* The loop over block_data ends; the edge file is closed.
GenClose ==
    /\ g_pc = "types"
    /\ g_et > Len(g_block_data)
    /\ g_pc' = "done"
    /\ UNCHANGED <<g_lock, g_data, g_seed, g_hw, g_node_rows, g_edge_rows, g_block_data, g_et,
                   g_rdm_gen, g_workers, rt_vars, f_vars>>

NextGen ==
    \/ GenNodes
    \/ GenConvert
    \/ GenInline
    \/ GenSpawn
    \/ \E k \in DOMAIN g_workers : WorkerStep(k)
    \/ \E k \in DOMAIN g_workers : WorkerFinish(k)
    \/ GenJoin
    \/ GenClose

SpecGen == InitGen /\ [][NextGen]_vars

(***************************************************************************)
(* Properties of the sampler, under SpecGen.                               *)
(***************************************************************************)
\* The rows of edge type e_type, as a bag.
RowBag(rows) == [r \in Range(rows) |-> Cardinality({j \in DOMAIN rows : rows[j] = r})]

RowsOfType(rows, e_type) == SelectSeq(rows, LAMBDA r : r[3] = e_type)

AllDegenerate(record) == \A b \in Range(record.blocks) : Degenerate(ConvertBlock(b))

\* C4: an edge type all of whose blocks are degenerate gets no edge, no
\* block is read outside its empty converted list, and the run goes on
\* normally to the next edge type.
C4_DegenerateTypeSkipped ==
    \A k \in DOMAIN g_block_data :
        AllDegenerate(g_data.edges[k])
        => /\ RowsOfType(g_edge_rows, g_data.edges[k].edge_type) = <<>>
           /\ ~(g_pc = "undefined" /\ g_et = k)

\* C5: for one model and one seed the edges written are the same bag for
\* every worker count and every interleaving: the bag a machine of one
\* hardware thread writes.
C5_SameEdgesForEveryW ==
    g_pc = "done" => RowBag(g_edge_rows) = RowBag(generate_graph(g_data, g_seed, 1).edge_rows)

\* C7: a block whose clamped probability is 1 has each cell of its
\* rectangle, the first one too, written exactly once.
C7_FullBlockEmitsEveryCell ==
    g_pc = "done"
    => \A k \in DOMAIN g_block_data : \A j \in DOMAIN g_block_data[k].block :
          LET rec == g_block_data[k].block[j]
          IN  rec.prob = <<1, 1>>
              => \A x \in rec.startX..rec.endX, y \in rec.startY..rec.endY :
                    Len(SelectSeq(g_edge_rows,
                                  LAMBDA r : r = <<x, y, g_block_data[k].e_type>>)) = 1

(***************************************************************************)
(* The functions of m1ModelFormat.cpp called in a chain: scale_m1_data     *)
(* with a factor and then with its reciprocal, and write_m1_file followed  *)
(* by read_m1_file of the text written.                                    *)
(***************************************************************************)
FModel(values, nodes, edges) ==
    [meta |-> Meta_Record(<<"g">>, values), nodes |-> nodes, edges |-> edges]

FScaleOne == (KeySCALE :> DefaultScale)

\* Two node types; blocks of probability 1/2, 3/4 and 1.
FModelPlain ==
    FModel(FScaleOne,
           <<Node_Record(IntR(0), IntR(2), <<"a">>), Node_Record(IntR(2), IntR(3), <<"b">>)>>,
           <<Edge_Record(<<"e">>,
                         <<Edge_Block(IntR(0), IntR(2), IntR(2), IntR(3), <<1, 2>>),
                           Edge_Block(IntR(2), IntR(3), IntR(0), IntR(2), <<3, 4>>)>>),
             Edge_Record(<<"f">>, <<Edge_Block(IntR(0), IntR(2), IntR(0), IntR(2), <<1, 1>>)>>)>>)

\* No SCALE key; endpoints that are not integers.
FModelHalves ==
    FModel((<<"K">> :> <<"v">>),
           <<Node_Record(IntR(0), <<3, 2>>, <<"a">>), Node_Record(<<3, 2>>, IntR(4), <<"b">>)>>,
           <<Edge_Record(<<"e">>,
                         <<Edge_Block(IntR(0), <<3, 2>>, <<3, 2>>, IntR(4), <<1, 4>>),
                           Edge_Block(<<3, 2>>, IntR(4), <<3, 2>>, IntR(4), <<1, 8>>)>>)>>)

\* A model that -Scale 0.99999994 leaves: endpoints just below an integer,
\* and a probability with more than six decimals.
FModelFine ==
    FModel(FScaleOne,
           <<Node_Record(IntR(0), <<50331645, 16777216>>, <<"a">>)>>,
           <<Edge_Record(<<"e">>,
                         <<Edge_Block(IntR(0), <<50331645, 16777216>>, IntR(0),
                                      <<50331645, 16777216>>, <<11184811, 33554432>>)>>)>>)

\* A model that -Read makes when an edge ends at a node no node file lists:
\* the record of the empty node type.
FModelEmptyType ==
    FModel(FScaleOne,
           <<Node_Record(IntR(0), IntR(0), <<>>), Node_Record(IntR(0), IntR(1), <<"a">>)>>,
           <<Edge_Record(<<"e">>, <<Edge_Block(IntR(0), IntR(1), IntR(0), IntR(3), <<1, 1>>)>>)>>)

\* A model write_m1_file rejects: a line break in a node type.
FModelLineBreak ==
    FModel(FScaleOne,
           <<Node_Record(IntR(0), IntR(2), <<"a", "\n", "b">>)>>,
           <<Edge_Record(<<"e">>, <<Edge_Block(IntR(0), IntR(2), IntR(0), IntR(2), <<1, 2>>)>>)>>)

FScaleModels == {FModelPlain, FModelHalves, FModelEmptyType}

FM1Models == {FModelPlain, FModelHalves, FModelFine, FModelEmptyType, FModelLineBreak}

\* The factors: float values; 0 is the one scale_m1_data rejects.
FFactors ==
    {<<0, 1>>, <<1, 4>>, <<1, 2>>, <<3, 4>>, <<3, 2>>, IntR(2), IntR(3), IntR(4), IntR(5),
     IntR(6), IntR(7), IntR(8)}

\* 1 / k as a float.
Reciprocal(k) == FDiv(<<1, 1>>, k)

InitM1 ==
    /\ RuntimeIdle
    /\ SamplerIdle
    /\ \/ f_op = "scale" /\ f_model \in FScaleModels /\ f_scale \in FFactors
       \/ f_op = "m1" /\ f_model \in FM1Models /\ f_scale = <<1, 1>>
    /\ f_in = <<>>
    /\ f_pc = "start"
    /\ f_out = <<>>

\* scale_m1_data(M, k)
FScale ==
    /\ f_op = "scale" /\ f_pc = "start"
    /\ f_out' = <<scale_m1_data(f_model, f_scale)>>
    /\ f_pc' = "scaled"
    /\ UNCHANGED <<f_op, f_model, f_scale, f_in, rt_vars, g_vars>>

\* scale_m1_data(M', 1 / k) of the model the first call returned.
FScaleBack ==
    /\ f_op = "scale" /\ f_pc = "scaled"
    /\ f_out[1].ok
    /\ f_out' = Append(f_out, scale_m1_data(f_out[1].result, Reciprocal(f_scale)))
    /\ f_pc' = "done"
    /\ UNCHANGED <<f_op, f_model, f_scale, f_in, rt_vars, g_vars>>

\* write_m1_file(path, M) to a path that opens.
FWrite ==
    /\ f_op = "m1" /\ f_pc = "start"
    /\ f_out' = <<write_m1_file(f_model)>>
    /\ f_pc' = "written"
    /\ UNCHANGED <<f_op, f_model, f_scale, f_in, rt_vars, g_vars>>

\* read_m1_file(path) of the file the writer completed.
FRead ==
    /\ f_op = "m1" /\ f_pc = "written"
    /\ f_out[1].ok
    /\ f_out' = Append(f_out, read_m1_file(f_out[1].text))
    /\ f_pc' = "done"
    /\ UNCHANGED <<f_op, f_model, f_scale, f_in, rt_vars, g_vars>>

NextM1 ==
    \/ FScale
    \/ FScaleBack
    \/ FWrite
    \/ FRead

SpecM1 == InitM1 /\ [][NextM1]_vars

(***************************************************************************)
(* Properties of the M1 functions, under SpecM1.                           *)
(***************************************************************************)
\* new = old * k, by cross-multiplication.
IsProduct(new, old, k) == new[1] * old[2] * k[2] = old[1] * k[1] * new[2]

\* |a - b| <= b * 2^-bits
Near(a, b, bits) ==
    LET l == a[1] * b[2]
        r == b[1] * a[2]
    IN  (IF l >= r THEN l - r ELSE r - l) <= r \div Pow2(bits)

\* a is a binary32 value.
IsBinary32(a) == IsDyadic(a) /\ BitLen(OddPart(a)) <= FloatMantBits

\* new is min(1, old / k) as a float has it: 1 when the quotient is 1 or
\* more, else a binary32 value within half a unit in the last place of it.
IsClampedQuotient(new, old, k) ==
    IF old[1] * k[2] >= old[2] * k[1] THEN new = <<1, 1>>
    ELSE IsBinary32(new) /\ Near(new, <<old[1] * k[2], old[2] * k[1]>>, FloatMantBits)

ScaledNode(new, old, k) ==
    /\ new.node_type = old.node_type
    /\ IsProduct(new.startID, old.startID, k)
    /\ IsProduct(new.endID, old.endID, k)

ScaledBlock(new, old, k) ==
    /\ IsProduct(new.startX, old.startX, k) /\ IsProduct(new.endX, old.endX, k)
    /\ IsProduct(new.startY, old.startY, k) /\ IsProduct(new.endY, old.endY, k)
    /\ IsClampedQuotient(new.expression_probability, old.expression_probability, k)

ScaledEdge(new, old, k) ==
    /\ new.edge_type = old.edge_type
    /\ Len(new.blocks) = Len(old.blocks)
    /\ \A j \in DOMAIN old.blocks : ScaledBlock(new.blocks[j], old.blocks[j], k)

RoundTripDone == f_op = "scale" /\ Len(f_out) = 2 /\ f_out[2].ok

Back == f_out[2].result

\* The blocks of M, as (edge record, block) index pairs.
BlockIndices == {<<i, j>> \in (1..Len(f_model.edges)) \X (1..3) : j <= Len(f_model.edges[i].blocks)}

BlockOf(m, ij) == m.edges[ij[1]].blocks[ij[2]]

\* One of the two divisions pushed the probability of the block above 1.
ClampedOnTheWay(ij) ==
    \/ RLess(<<1, 1>>, FDiv(BlockOf(f_model, ij).expression_probability, f_scale))
    \/ RLess(<<1, 1>>, FDiv(BlockOf(f_out[1].result, ij).expression_probability,
                            Reciprocal(f_scale)))

SameEndpoints ==
    /\ \A i \in DOMAIN f_model.nodes :
          /\ Back.nodes[i].startID = f_model.nodes[i].startID
          /\ Back.nodes[i].endID = f_model.nodes[i].endID
    /\ \A ij \in BlockIndices :
          /\ BlockOf(Back, ij).startX = BlockOf(f_model, ij).startX
          /\ BlockOf(Back, ij).endX = BlockOf(f_model, ij).endX
          /\ BlockOf(Back, ij).startY = BlockOf(f_model, ij).startY
          /\ BlockOf(Back, ij).endY = BlockOf(f_model, ij).endY

SameProbabilities ==
    \A ij \in BlockIndices :
        IF ClampedOnTheWay(ij)
          THEN RLeq(BlockOf(Back, ij).expression_probability,
                    BlockOf(f_model, ij).expression_probability)
          ELSE BlockOf(Back, ij).expression_probability
               = BlockOf(f_model, ij).expression_probability

\* The bits of the relative tolerance of a round trip: the three roundings
\* (of 1 / k and of the two quotients) are each within 2^-24, relative.
ToleranceBits == FloatMantBits - 2

NearEndpoints ==
    /\ \A i \in DOMAIN f_model.nodes :
          /\ Near(Back.nodes[i].startID, f_model.nodes[i].startID, ToleranceBits)
          /\ Near(Back.nodes[i].endID, f_model.nodes[i].endID, ToleranceBits)
    /\ \A ij \in BlockIndices :
          /\ Near(BlockOf(Back, ij).startX, BlockOf(f_model, ij).startX, ToleranceBits)
          /\ Near(BlockOf(Back, ij).endX, BlockOf(f_model, ij).endX, ToleranceBits)
          /\ Near(BlockOf(Back, ij).startY, BlockOf(f_model, ij).startY, ToleranceBits)
          /\ Near(BlockOf(Back, ij).endY, BlockOf(f_model, ij).endY, ToleranceBits)

NearProbabilities ==
    \A ij \in BlockIndices :
        \/ Near(BlockOf(Back, ij).expression_probability,
                BlockOf(f_model, ij).expression_probability, ToleranceBits)
        \/ /\ ClampedOnTheWay(ij)
           /\ RLeq(BlockOf(Back, ij).expression_probability,
                   BlockOf(f_model, ij).expression_probability)

\* k and 1 / k are both floats: k is a power of two.
ExactReciprocal == RMul(f_scale, Reciprocal(f_scale)) = <<1, 1>>

\* C9 as stated: Scale(1/k)(Scale(k)(M)) has the endpoints of M, and the
\* probabilities of M but for those a division pushed above 1, which are
\* not above M's.
C9_RoundTripExact == RoundTripDone => SameEndpoints /\ SameProbabilities

\* C9, amended: that holds when 1 / k is exact in float arithmetic; for any
\* other factor the endpoints are within a relative 2^-22 of M's, and so
\* are the probabilities, but for those a division pushed above 1, which
\* are within that of M's or lower.
C9_RoundTripWithin ==
    RoundTripDone
    => /\ ExactReciprocal => SameEndpoints /\ SameProbabilities
       /\ NearEndpoints /\ NearProbabilities

\* A round trip with a factor below 1 whose reciprocal is exact: one
\* probability was clamped and came back lower, another came back as it was.
C9_Witness ==
    /\ RoundTripDone
    /\ ExactReciprocal
    /\ RLess(f_scale, <<1, 1>>)
    /\ \E ij \in BlockIndices :
          /\ ClampedOnTheWay(ij)
          /\ RLess(BlockOf(Back, ij).expression_probability,
                   BlockOf(f_model, ij).expression_probability)
    /\ \E ij \in BlockIndices :
          /\ ~ClampedOnTheWay(ij)
          /\ BlockOf(f_model, ij).expression_probability # <<1, 1>>
          /\ BlockOf(Back, ij).expression_probability
             = BlockOf(f_model, ij).expression_probability

\* C10: for a model the writer accepts, read_m1_file of the text written
\* succeeds and returns the name, the meta map, the node records and the
\* edge records with their blocks of the model.
C10_ReadOfWriteIsIdentity ==
    (f_op = "m1" /\ Len(f_out) = 2) => f_out[2].ok /\ f_out[2].data = f_model

(***************************************************************************)
(* read_m1_file on the texts of files: a well-formed file of eight lines   *)
(* in which up to two lines are replaced by other lines.                   *)
(***************************************************************************)
LineMeta == <<"#", " ", "M", "E", "T", "A">>
LineName == <<"N", "A", "M", "E", "=", "g">>
LineNodes == <<"#", " ", "N", "O", "D", "E", "S">>
LineNode == <<"0", ",", "2", ",", "a">>
LineEdges == <<"#", " ", "E", "D", "G", "E", "S", "=", "e">>
LineBlock == <<"0", ",", "2", ",", "0", ",", "2", ",", "0", ".", "5">>
LineNameEmpty == <<"N", "A", "M", "E", "=">>
LineKey == <<"K", "=", "v">>
LineNodeCR == <<"2", ",", "3", ",", "b", "\r">>
LineNodeBad == <<"0", ",", "x", ",", "a">>
LineNodeShort == <<"0", ",", "2">>
LineEdgesBare == <<"#", " ", "E", "D", "G", "E", "S">>
LineEdgesF == <<"#", " ", "E", "D", "G", "E", "S", "=", "f">>
LineBlockShort == <<"0", ",", "2", ",", "0", ",", "2", ",">>
LineBlockBad == <<"0", ",", "2", ",", "0", ",", "2", ",", "p">>
LineUnknown == <<"#", " ", "X">>
LineEmpty == <<>>

LineNodeB == <<"2", ",", "3", ",", "b">>
LineBlockB == <<"0", ",", "2", ",", "2", ",", "3", ",", "0", ".", "2", "5">>

\* "# META", "NAME=g", "# NODES", "0,2,a", "2,3,b", "# EDGES=e", "0,2,0,2,0.5",
\* "0,2,2,3,0.25"
BaseLines ==
    <<LineMeta, LineName, LineNodes, LineNode, LineNodeB, LineEdges, LineBlock, LineBlockB>>

LinePool ==
    {LineMeta, LineName, LineNodes, LineNode, LineEdges, LineBlock, LineNameEmpty, LineKey,
     LineNodeCR, LineNodeBad, LineNodeShort, LineEdgesBare, LineEdgesF, LineBlockShort,
     LineBlockBad, LineUnknown, LineEmpty}

\* The text of a file of the given lines, each ended by a line break.
TextOf(lines) == Concat([i \in DOMAIN lines |-> Append(lines[i], "\n")])

TextFiles ==
    {TextOf([i \in DOMAIN BaseLines |->
                IF i = a THEN x ELSE IF i = b THEN y ELSE BaseLines[i]]) :
        a \in DOMAIN BaseLines, b \in DOMAIN BaseLines, x \in LinePool, y \in LinePool}

InitText ==
    /\ RuntimeIdle
    /\ SamplerIdle
    /\ f_op = "text" /\ f_model = EmptyM1 /\ f_scale = <<1, 1>>
    /\ f_in \in TextFiles
    /\ f_pc = "start"
    /\ f_out = <<>>

\* read_m1_file(path) of a file with the text f_in.
FReadText ==
    /\ f_op = "text" /\ f_pc = "start"
    /\ f_out' = <<read_m1_file(f_in)>>
    /\ f_pc' = "done"
    /\ UNCHANGED <<f_op, f_model, f_scale, f_in, rt_vars, g_vars>>

NextText == FReadText

SpecText == InitText /\ [][NextText]_vars

(***************************************************************************)
(* Properties of read_m1_file, under SpecText.                             *)
(***************************************************************************)
\* The lines of the text as the reader sees them.
SeenLines(text) == [i \in DOMAIN SplitOn(text, "\n") |-> StripCR(SplitOn(text, "\n")[i])]

IsDirectiveLine(line) == line # <<>> /\ Head(line) = "#"

IsRowLine(line) == line # <<>> /\ Head(line) # "#"

\* The section a directive opens; "unknown" for any other line that starts with '#'.
SectionOf(line) ==
    IF StartsWith(line, LineMeta) THEN "META"
    ELSE IF StartsWith(line, LineNodes) THEN "NODES"
    ELSE IF StartsWith(line, LineEdgesBare) THEN "EDGES"
    ELSE "unknown"

\* The section line i is in: that of the last directive above it.
SectionAt(lines, i) ==
    LET above == {j \in 1..(i - 1) : IsDirectiveLine(lines[j])}
    IN  IF above = {} THEN "NONE"
        ELSE SectionOf(lines[CHOOSE j \in above : \A k \in above : k <= j])

\* A line the reader gives up at: an unknown directive, or a row above every directive.
FatalLine(lines, i) ==
    \/ IsDirectiveLine(lines[i]) /\ SectionOf(lines[i]) = "unknown"
    \/ IsRowLine(lines[i]) /\ SectionAt(lines, i) = "NONE"

AcceptedName(lines, i) ==
    /\ IsRowLine(lines[i]) /\ SectionAt(lines, i) = "META"
    /\ Fields(lines[i], "=", 2)[1] = KeyNAME
    /\ Fields(lines[i], "=", 2)[2] # <<>>

AcceptedNode(lines, i) ==
    /\ IsRowLine(lines[i]) /\ SectionAt(lines, i) = "NODES"
    /\ \A k \in 1..3 : Fields(lines[i], ",", 3)[k] # <<>>
    /\ \A k \in 1..2 : Stold(Fields(lines[i], ",", 3)[k]).ok

AcceptedBlock(lines, i) ==
    /\ IsRowLine(lines[i]) /\ SectionAt(lines, i) = "EDGES"
    /\ \A k \in 1..5 : Fields(lines[i], ",", 5)[k] # <<>>
    /\ \A k \in 1..4 : Stold(Fields(lines[i], ",", 5)[k]).ok
    /\ Stof(Fields(lines[i], ",", 5)[5]).ok

\* The indices of the lines that satisfy Test, in order.
Where(lines, Test(_, _)) ==
    LET Holds(i) == Test(lines, i)
    IN  SelectSeq([i \in DOMAIN lines |-> i], Holds)

NodeOfLine(line) ==
    Node_Record(Stold(Fields(line, ",", 3)[1]).val, Stold(Fields(line, ",", 3)[2]).val,
                Fields(line, ",", 3)[3])

BlockOfLine(line) ==
    Edge_Block(Stold(Fields(line, ",", 5)[1]).val, Stold(Fields(line, ",", 5)[2]).val,
               Stold(Fields(line, ",", 5)[3]).val, Stold(Fields(line, ",", 5)[4]).val,
               Stof(Fields(line, ",", 5)[5]).val)

\* The blocks of all edge records, one after the other.
AllBlocks(edges) == Concat([i \in DOMAIN edges |-> edges[i].blocks])

\* The three requirements of a valid file.
HasTheThree(lines) ==
    /\ \E i \in DOMAIN lines : AcceptedName(lines, i)
    /\ \E i \in DOMAIN lines : AcceptedNode(lines, i)
    /\ \E i \in DOMAIN lines : AcceptedBlock(lines, i)

\* The records of the model are those of the accepted rows, in order.
RecordsOfAccepted(lines, data) ==
    LET nodes == Where(lines, AcceptedNode)
        blocks == Where(lines, AcceptedBlock)
        names == Where(lines, AcceptedName)
    IN  /\ data.nodes = [k \in DOMAIN nodes |-> NodeOfLine(lines[nodes[k]])]
        /\ AllBlocks(data.edges) = [k \in DOMAIN blocks |-> BlockOfLine(lines[blocks[k]])]
        /\ data.meta.name = Fields(lines[names[Len(names)]], "=", 2)[2]

TextRead == f_op = "text" /\ Len(f_out) = 1

\* C11 as stated: read_m1_file returns a model if and only if the file has
\* an accepted NAME line in a META section, an accepted node row in a NODES
\* section and an accepted block row under an EDGES directive; the rows
\* skipped do not change the records of the others.
C11_ReadsIffThreeRequirements ==
    TextRead
    => /\ f_out[1].ok <=> HasTheThree(SeenLines(f_in))
       /\ f_out[1].ok => RecordsOfAccepted(SeenLines(f_in), f_out[1].data)

\* C11, amended: read_m1_file returns a model if and only if the file has
\* the three and, besides, no line starting with '#' other than a META,
\* NODES or EDGES directive and no row above the first directive: at such a
\* line the reader raises an error, whatever else the file holds.  The
\* records of a model returned are those of the accepted rows, in order.
C11_ReadsIffThreeAndNoFatalLine ==
    TextRead
    => /\ f_out[1].ok <=> /\ HasTheThree(SeenLines(f_in))
                          /\ \A i \in DOMAIN SeenLines(f_in) : ~FatalLine(SeenLines(f_in), i)
       /\ f_out[1].ok => RecordsOfAccepted(SeenLines(f_in), f_out[1].data)

\* A file was read that has a node row that does not convert and a block
\* row that is incomplete, next to the three requirements.
C11_Witness ==
    /\ TextRead /\ f_out[1].ok
    /\ \E i \in DOMAIN SeenLines(f_in) : SeenLines(f_in)[i] = LineNodeBad
    /\ \E i \in DOMAIN SeenLines(f_in) : SeenLines(f_in)[i] = LineBlockShort
    /\ Len(f_out[1].data.nodes) = 1

(***************************************************************************)
(* GenericGraphReader::process on the observations of a reader, and        *)
(* scale_m1_data on the model it compiles.  f_in is the rows read: the     *)
(* nodes as <<name, type>>, then the edges as <<start, end, type>>.        *)
(***************************************************************************)
NameA1 == <<"a", "1">>

NameA2 == <<"a", "2">>

NameA3 == <<"a", "3">>

NameB1 == <<"b", "1">>

TypeA == <<"A">>

TypeB == <<"B">>

ColorE == <<"e">>

ColorF == <<"f">>

\* The node files: in the second, a2 and a3 are in no node file.
CompileNodeRows ==
    {<<<<NameA1, TypeA>>, <<NameA2, TypeA>>, <<NameA3, TypeA>>, <<NameB1, TypeB>>>>,
     <<<<NameA1, TypeA>>, <<NameB1, TypeB>>>>}

CompileEdgeRow ==
    <<<<NameA1, NameA1, ColorE>>, <<NameA1, NameB1, ColorE>>, <<NameA1, NameB1, ColorF>>,
      <<NameA2, NameA1, ColorE>>, <<NameA3, NameA1, ColorE>>, <<NameA3, NameB1, ColorE>>>>

MaxEdgeRows == 3

\* The edge files of at most MaxEdgeRows rows; the order of the rows makes
\* no difference to a reader, so one order stands for all.
CompileEdgeRows ==
    UNION {{[i \in 1..n |-> CompileEdgeRow[c[i]]] :
              c \in {d \in [1..n -> DOMAIN CompileEdgeRow] :
                       \A i \in 1..(n - 1) : d[i] <= d[i + 1]}} : n \in 0..MaxEdgeRows}

RECURSIVE ReadNodesOf(_, _)
ReadNodesOf(g, rows) ==
    IF rows = <<>> THEN g
    ELSE ReadNodesOf(readNode(g, Head(rows)[1], Head(rows)[2]), Tail(rows))

RECURSIVE ReadEdgesOf(_, _)
ReadEdgesOf(g, rows) ==
    IF rows = <<>> THEN g
    ELSE ReadEdgesOf(readEdge(g, Head(rows)[1], Head(rows)[2], Head(rows)[3]), Tail(rows))

\* The reader after the node rows, then the edge rows.
ReaderOf(in) == ReadEdgesOf(ReadNodesOf(NewReader, in.nodes), in.edges)

CompileSeeds == {0, 1}

CompileFactors == {<<1, 2>>, IntR(3)}

InitCompile ==
    /\ RuntimeIdle
    /\ SamplerIdle
    /\ f_op = "compile" /\ f_model = EmptyM1 /\ f_scale = <<1, 1>>
    /\ f_in \in [nodes : CompileNodeRows, edges : CompileEdgeRows]
    /\ f_pc = "start"
    /\ f_out = <<>>

\* process(meta_data, seed) of the reader that read f_in.
FCompile ==
    /\ f_op = "compile" /\ f_pc = "start"
    /\ LET Compile(g) ==
               \E seed \in CompileSeeds,
                  nt_order \in Orders(ContainerTypes(g)), ed_order \in Orders(g.edge_colors) :
                  f_model' = process(g, EmptyMap, seed, nt_order, ed_order)
       IN  Compile(ReaderOf(f_in))
    /\ f_pc' = "compiled"
    /\ UNCHANGED <<f_op, f_scale, f_in, f_out, rt_vars, g_vars>>

\* scale_m1_data on the compiled model; f_out is the factors applied, f_scale
\* their product.  A run scales as many times as there are factors.
FScaleCompiled ==
    /\ f_op = "compile" /\ f_pc = "compiled"
    /\ Len(f_out) < Cardinality(CompileFactors)
    /\ \E k \in CompileFactors :
          /\ scale_m1_data(f_model, k).ok
          /\ f_model' = scale_m1_data(f_model, k).result
          /\ f_scale' = RMul(f_scale, k)
          /\ f_out' = Append(f_out, k)
    /\ UNCHANGED <<f_op, f_in, f_pc, rt_vars, g_vars>>

NextCompile == FCompile \/ FScaleCompiled

SpecCompile == InitCompile /\ [][NextCompile]_vars

(***************************************************************************)
(* Properties of process, under SpecCompile.                               *)
(***************************************************************************)
RAdd(a, b) ==
    LET g == GCD(a[2], b[2])
    IN  Rat(a[1] * (b[2] \div g) + b[1] * (a[2] \div g), (a[2] \div g) * b[2])

RSub(a, b) == RAdd(a, <<-b[1], b[2]>>)

RECURSIVE RSum(_)
RSum(s) == IF s = <<>> THEN <<0, 1>> ELSE RAdd(Head(s), RSum(Tail(s)))

\* The type the rows give a name: that of its last node row, the empty type
\* without one.
TypeOfName(in, name) ==
    LET rows == {i \in DOMAIN in.nodes : in.nodes[i][1] = name}
    IN  IF rows = {} THEN <<>>
        ELSE in.nodes[CHOOSE i \in rows : \A j \in rows : j <= i][2]

ObservedTypes(in) == {in.nodes[i][2] : i \in DOMAIN in.nodes}

ObservedColors(in) == {in.edges[i][3] : i \in DOMAIN in.edges}

AllObserved(in) ==
    \A i \in DOMAIN in.edges :
        \A k \in 1..2 : \E j \in DOMAIN in.nodes : in.nodes[j][1] = in.edges[i][k]

\* edges(e, tX, tY)
EdgesBetween(in, e, tX, tY) ==
    Cardinality({i \in DOMAIN in.edges :
                    /\ in.edges[i][3] = e
                    /\ TypeOfName(in, in.edges[i][1]) = tX
                    /\ TypeOfName(in, in.edges[i][2]) = tY})

\* The degree of a name at end k (1: out, 2: in) of the edges of type e.
DegreeOf(in, e, k, name) ==
    Cardinality({i \in DOMAIN in.edges : in.edges[i][3] = e /\ in.edges[i][k] = name})

\* The positive degrees at end k of the names of type t.
PositiveDegrees(in, e, k, t) ==
    {DegreeOf(in, e, k, in.nodes[j][1]) : j \in {i \in DOMAIN in.nodes : in.nodes[i][2] = t}} \ {0}

\* sum_out[t, e] (k = 1) and sum_in[t, e] (k = 2)
DegreeSum(in, e, k, t) ==
    Cardinality({i \in DOMAIN in.edges :
                    in.edges[i][3] = e /\ TypeOfName(in, in.edges[i][k]) = t})

\* The node interval of type t in the model.
Region(data, t) == data.nodes[CHOOSE i \in DOMAIN data.nodes : data.nodes[i].node_type = t]

Within(lo, hi, r) == RLeq(r.startID, lo) /\ RLeq(hi, r.endID)

\* The blocks of edge type e in the region of tX by that of tY.
BlocksIn(data, e, tX, tY) ==
    LET InRegion(b) ==
            /\ Within(b.startX, b.endX, Region(data, tX))
            /\ Within(b.startY, b.endY, Region(data, tY))
        Of(rec) == IF rec.edge_type = e THEN SelectSeq(rec.blocks, InRegion) ELSE <<>>
    IN  Concat([i \in DOMAIN data.edges |-> Of(data.edges[i])])

\* p * (endX - startX) * (endY - startY)
ExpectedEdges(b) ==
    RMul(b.expression_probability,
         RMul(RSub(b.endX, b.startX), RSub(b.endY, b.startY)))

ExpectedIn(data, e, tX, tY) ==
    RSum([i \in DOMAIN BlocksIn(data, e, tX, tY) |-> ExpectedEdges(BlocksIn(data, e, tX, tY)[i])])

Compiled == f_op = "compile" /\ f_pc = "compiled" /\ f_out = <<>>

\* C12: compile emits a block for an out-degree entry of (tX, e) and an
\* in-degree entry of (tY, e) exactly when edges(e, tX, tY) * deg_x * deg_y > 0:
\* the region of tX by tY holds one block of type e for every pair of a
\* positive out-degree and a positive in-degree, and no block of type e when
\* no edge of type e from tX to tY was observed.
C12_BlocksExactlyForPositiveCells ==
    Compiled
    => \A e \in ObservedColors(f_in), tX \in ObservedTypes(f_in), tY \in ObservedTypes(f_in) :
          Len(BlocksIn(f_model, e, tX, tY)) =
             IF EdgesBetween(f_in, e, tX, tY) = 0 THEN 0
             ELSE Cardinality(PositiveDegrees(f_in, e, 1, tX))
                  * Cardinality(PositiveDegrees(f_in, e, 2, tY))

RECURSIVE LinesBefore(_, _)
LinesBefore(nodes, j) ==
    IF j <= 1 THEN 0
    ELSE LinesBefore(nodes, j - 1) + (Floor(nodes[j - 1].endID) - Floor(nodes[j - 1].startID))

RecordOfType(e_type) == CHOOSE k \in DOMAIN g_data.edges : g_data.edges[k].edge_type = e_type

AllJoined == g_pc = "threads" /\ \A k \in DOMAIN g_workers : g_workers[k].pc = "done"

\* The rows the threads of the edge type at hand produce, when rdm_gen was
\* in the given state before their seeds were drawn.
RowsOfThreads(ranges, seeds) ==
    Concat([k \in DOMAIN ranges |->
              multithread_generate_graph(GenBlock, ranges[k].idx_start, ranges[k].idx_end,
                                         seeds[k], GenType).rows])

\* C16: the rows of the edge file are grouped by edge type, in the order
\* of the edge records of the model, whatever the interleaving of the
\* workers; and when the workers of an edge type can be joined, every row
\* they produced is in the file.
C16_GroupedAndWrittenAtJoin ==
    /\ \A i, j \in DOMAIN g_edge_rows :
          i < j => RecordOfType(g_edge_rows[i][3]) <= RecordOfType(g_edge_rows[j][3])
    /\ AllJoined
       => \E s \in 0..(RngMod - 1) :
             /\ DrawSeeds(s, Len(g_workers)).state = g_rdm_gen
             /\ RowBag(RowsOfType(g_edge_rows, GenType))
                   = RowBag(RowsOfThreads(ThreadRanges(Len(GenBlock), NThreads(g_hw)),
                                          DrawSeeds(s, Len(g_workers)).seeds))

\* Three workers were joined, the rows of a later block in the file before
\* those of an earlier one, and the rows of the next edge type after them.
C16_Witness ==
    /\ g_pc = "done"
    /\ g_data = ModelManyThenTwo
    /\ g_hw = 4
    /\ \E i, j \in DOMAIN g_edge_rows :
          /\ i < j
          /\ g_edge_rows[i][3] = <<"e">> /\ g_edge_rows[j][3] = <<"e">>
          /\ g_edge_rows[i][2] > g_edge_rows[j][2] + 3
    /\ \E i \in DOMAIN g_edge_rows : g_edge_rows[i][3] = <<"f">>

(***************************************************************************)
(* tokenize_s1 and parse_s1_file as functions.  A script text is made of   *)
(* items, each a word or a double-quoted span, with one space between two  *)
(* of them and an optional line break at the end; a token list is made of  *)
(* phrases, each a tag or a subtag with the tokens that follow it.         *)
(***************************************************************************)
Word(text) == [quoted |-> FALSE, text |-> text]

Quoted(text) == [quoted |-> TRUE, text |-> text]

ScriptItems ==
    {Word(<<"-", "L", "o", "a", "d">>), Word(<<"x">>), Quoted(<<"a", " ", "b">>), Quoted(<<"-", "x">>),
     Quoted(<<"+", "y">>), Quoted(<<>>), Quoted(<<"A", "\t", "b">>), Quoted(<<"c", "\n", "D">>)}

MaxItems == 3

ItemText(item) == IF item.quoted THEN <<"\"">> \o item.text \o <<"\"">> ELSE item.text

\* The text of the items, one space between two of them, and the tail.
ScriptTextOf(in) ==
    Concat([k \in DOMAIN in.items |->
              (IF k = 1 THEN <<>> ELSE <<" ">>) \o ItemText(in.items[k])]) \o in.tail

TokenizeInputs ==
    [items : UNION {[1..n -> ScriptItems] : n \in 0..MaxItems}, tail : {<<>>, <<"\n">>}]

\* A token of type argument, whatever its text.
TokArg(text) == [type |-> "TArgument", text |-> text]

\* The tokens of a word and of the words after it; the first has the
\* specifier of its first character, a word after a subtag or a tag that
\* starts with '+' is a subtag, every other word is an argument.
Phrase(word, rest) ==
    <<Token(word)>>
    \o [k \in DOMAIN rest |->
          IF rest[k] # <<>> /\ rest[k][1] = "+" THEN Token(rest[k]) ELSE TokArg(rest[k])]

\* Phrases that parse, when a tag comes first.
SoundPhrases ==
    {Phrase(<<"-", "S", "c", "a", "l", "e">>, <<<<"2">>>>),
     Phrase(<<"-", "G", "e", "n", "e", "r", "a", "t", "e">>, <<<<"n">>, <<"e">>, <<"2">>>>),
     Phrase(<<"-", "R", "e", "a", "d">>, <<>>),
     Phrase(<<"-", "R", "e", "a", "d">>, <<<<"+", "n", "o", "d", "e", "i", "n", "d", "e", "x">>, <<"0">>>>),
     Phrase(<<"-", "R", "e", "a", "d">>, <<<<"+", "e", "d", "g", "e", "i", "n", "d", "e", "x">>, <<"0">>, <<"1">>>>),
     Phrase(<<"-", "R", "e", "a", "d">>, <<<<"+", "a", "r", "g">>, <<"k">>, <<"v">>>>),
     Phrase(<<"-", "L", "o", "a", "d">>, <<<<"m">>>>),
     Phrase(<<"-", "H", "e", "l", "p">>, <<>>)}

\* Phrases with a missing or surplus argument, an unknown tag or subtag, a
\* text that is no number, a factor that is not positive.
DefectivePhrases ==
    {Phrase(<<"-", "S", "c", "a", "l", "e">>, <<>>),
     Phrase(<<"-", "S", "c", "a", "l", "e">>, <<<<"0">>>>),
     Phrase(<<"-", "S", "c", "a", "l", "e">>, <<<<"-", "1">>>>),
     Phrase(<<"-", "S", "c", "a", "l", "e">>, <<<<"x">>>>),
     Phrase(<<"-", "S", "c", "a", "l", "e">>, <<<<"2">>, <<"3">>>>),
     Phrase(<<"-", "G", "e", "n", "e", "r", "a", "t", "e">>, <<>>),
     Phrase(<<"-", "G", "e", "n", "e", "r", "a", "t", "e">>, <<<<"n">>, <<"e">>>>),
     Phrase(<<"-", "G", "e", "n", "e", "r", "a", "t", "e">>, <<<<"n">>, <<"e">>, <<"x">>>>),
     Phrase(<<"-", "R", "e", "a", "d">>, <<<<"+", "n", "o", "d", "e", "i", "n", "d", "e", "x">>>>),
     Phrase(<<"-", "R", "e", "a", "d">>, <<<<"+", "n", "o", "d", "e", "i", "n", "d", "e", "x">>, <<"x">>>>),
     Phrase(<<"-", "R", "e", "a", "d">>, <<<<"+", "e", "d", "g", "e", "i", "n", "d", "e", "x">>>>),
     Phrase(<<"-", "R", "e", "a", "d">>, <<<<"+", "e", "d", "g", "e", "i", "n", "d", "e", "x">>, <<"0">>>>),
     Phrase(<<"-", "R", "e", "a", "d">>, <<<<"+", "a", "r", "g">>>>),
     Phrase(<<"-", "R", "e", "a", "d">>, <<<<"+", "a", "r", "g">>, <<"k">>>>),
     Phrase(<<"-", "R", "e", "a", "d">>, <<<<"+", "b", "o", "g", "u", "s">>>>),
     Phrase(<<"-", "B", "o", "g", "u", "s">>, <<>>)}

MaxPhrases == 2

\* A -READ with its +nodetypeindex and +edgetypeindex: the word and the
\* numbers that follow it.
ReadPhrases ==
    {[word |-> <<"-", "R", "e", "a", "d">>, nums |-> <<>>],
     [word |-> <<"+", "n", "o", "d", "e", "t", "y", "p", "e", "i", "n", "d", "e", "x">>, nums |-> <<>>],
     [word |-> <<"+", "n", "o", "d", "e", "t", "y", "p", "e", "i", "n", "d", "e", "x">>, nums |-> <<3>>],
     [word |-> <<"+", "n", "o", "d", "e", "t", "y", "p", "e", "i", "n", "d", "e", "x">>, nums |-> <<4, 5>>],
     [word |-> <<"+", "e", "d", "g", "e", "t", "y", "p", "e", "i", "n", "d", "e", "x">>, nums |-> <<6>>],
     [word |-> <<"+", "e", "d", "g", "e", "t", "y", "p", "e", "i", "n", "d", "e", "x">>, nums |-> <<7, 8>>]}

MaxReadPhrases == 4

NumPhrase(ph) == Phrase(ph.word, [k \in DOMAIN ph.nums |-> NatToStr(ph.nums[k])])

\* The inputs of parse_s1_file: the phrases in order, and what they are made of.
ParseInputs ==
    {[kind |-> "phrases", parts |-> ps, tokens |-> Concat(ps)] :
        ps \in UNION {[1..n -> SoundPhrases \cup DefectivePhrases] : n \in 0..MaxPhrases}}
    \cup
    {[kind |-> "reads", parts |-> ps, tokens |-> Concat([k \in DOMAIN ps |-> NumPhrase(ps[k])])] :
        ps \in UNION {[1..n -> ReadPhrases] : n \in 0..MaxReadPhrases}}

InitScript ==
    /\ RuntimeIdle
    /\ SamplerIdle
    /\ f_model = EmptyM1 /\ f_scale = <<1, 1>>
    /\ \/ f_op = "tokenize" /\ f_in \in TokenizeInputs
       \/ f_op = "parse" /\ f_in \in ParseInputs
    /\ f_pc = "start"
    /\ f_out = <<>>

\* tokenize_s1(input, {}) of the text of f_in.
FTokenize ==
    /\ f_op = "tokenize" /\ f_pc = "start"
    /\ f_out' = <<tokenize_s1(ScriptTextOf(f_in), <<>>)>>
    /\ f_pc' = "done"
    /\ UNCHANGED <<f_op, f_model, f_scale, f_in, rt_vars, g_vars>>

\* parse_s1_file(tokens) of the tokens of f_in.
FParse ==
    /\ f_op = "parse" /\ f_pc = "start"
    /\ f_out' = <<parse_s1_file(f_in.tokens)>>
    /\ f_pc' = "done"
    /\ UNCHANGED <<f_op, f_model, f_scale, f_in, rt_vars, g_vars>>

NextScript == FTokenize \/ FParse

SpecScript == InitScript /\ [][NextScript]_vars

(***************************************************************************)
(* Properties of tokenize_s1 and parse_s1_file, under SpecScript.          *)
(***************************************************************************)
Tokenized == f_op = "tokenize" /\ f_pc = "done"

Parsed == f_op = "parse" /\ f_pc = "done"

\* C17: every double-quoted span yields exactly one token, of type
\* argument, whose text is the characters between the quotes, whatever the
\* first of them is and wherever the span is (an empty span and a span at
\* the end of the input included); a word yields the token of its specifier.
C17_SpanIsOneArgument ==
    Tokenized
    => /\ f_out[1].status = "ok"
       /\ f_out[1].tokens =
             [k \in DOMAIN f_in.items |->
                IF f_in.items[k].quoted THEN TokArg(f_in.items[k].text)
                ELSE Token(f_in.items[k].text)]

\* C18: parse_s1_file returns an instruction list or raises a configuration
\* error, and reads no token at an index >= tokens.size(); a -Scale,
\* -Generate, +nodeindex, +edgeindex or +arg without its arguments, an
\* unknown tag or subtag, a text that is no number and a factor <= 0 each
\* raise the error.
C18_ReturnsOrRaises ==
    Parsed /\ f_in.kind = "phrases"
    => /\ f_out[1].status \in {"ok", "throw"}
       /\ (\E k \in DOMAIN f_in.parts : f_in.parts[k] \in DefectivePhrases)
          => f_out[1].status = "throw"

\* The positions of the -READ phrases, in order.
ReadsAt(parts) ==
    SelectSeq([k \in DOMAIN parts |-> k], LAMBDA k : parts[k].word = <<"-", "R", "e", "a", "d">>)

\* The numbers of the phrases of the given word from the -READ at position
\* p up to the next -READ, in order.
NumbersAfter(parts, p, word) ==
    LET Mine(k) ==
            /\ k > p /\ parts[k].word = word
            /\ \A j \in (p + 1)..k : parts[j].word # <<"-", "R", "e", "a", "d">>
    IN  Concat([k \in DOMAIN parts |-> IF Mine(k) THEN parts[k].nums ELSE <<>>])

OrDefault(nums, default) == IF nums = <<>> THEN default ELSE nums

\* C19: the node-type index list of every -Read is [1] if it has no
\* +nodetypeindex argument and otherwise all its +nodetypeindex arguments in
\* order; likewise the edge-type index list, with the default [2]; nothing
\* of one -Read is carried over to another.
C19_TypeIndicesOfEveryRead ==
    Parsed /\ f_in.kind = "reads" /\ f_in.parts # <<>> /\ f_in.parts[1].word = <<"-", "R", "e", "a", "d">>
    => /\ f_out[1].status = "ok"
       /\ Len(f_out[1].instructions) = Len(ReadsAt(f_in.parts))
       /\ \A r \in DOMAIN ReadsAt(f_in.parts) :
             /\ f_out[1].instructions[r].type = "IRead"
             /\ f_out[1].instructions[r].read.node_type_indices =
                   OrDefault(NumbersAfter(f_in.parts, ReadsAt(f_in.parts)[r],
                                          <<"+", "n", "o", "d", "e", "t", "y", "p", "e", "i", "n", "d", "e", "x">>), <<1>>)
             /\ f_out[1].instructions[r].read.edge_type_indices =
                   OrDefault(NumbersAfter(f_in.parts, ReadsAt(f_in.parts)[r],
                                          <<"+", "e", "d", "g", "e", "t", "y", "p", "e", "i", "n", "d", "e", "x">>), <<2>>)

\* -Read +nodetypeindex 3 +nodetypeindex 4 5 -Read: the indices 3, 4, 5 and
\* the default of the edge types, then the defaults of both.
C19_Witness ==
    /\ Parsed /\ f_in.kind = "reads"
    /\ Len(f_out[1].instructions) = 2
    /\ f_out[1].instructions[1].read.node_type_indices = <<3, 4, 5>>
    /\ f_out[1].instructions[1].read.edge_type_indices = <<2>>
    /\ f_out[1].instructions[2].read.node_type_indices = <<1>>
    /\ f_out[1].instructions[2].read.edge_type_indices = <<2>>

(***************************************************************************)
(* Properties of the -Generate instruction, under Spec.                    *)
(***************************************************************************)
\* The path with _i appended to the stem: the directory part, separator
\* included, and the extension are those of p.
WithNumber(p, i) ==
    SubSeq(p, 1, Len(p) - Len(filename(p))) \o stem(p) \o <<"_">> \o NatToStr(i) \o extension(p)

\* The path of invocation i (from 0) of n for the given path.
PathOfGraph(p, i, n) == IF n = 1 THEN p ELSE WithNumber(p, i)

\* A -Generate is about to run, with an active model.
Generating ==
    /\ status = "running"
    /\ instruction_counter < Len(instructions)
    /\ Current.type = "IGenerate"
    /\ has_active_model

\* C20: -Generate <nodefile> <edgefile> n invokes the sampler n times
\* (fewer only if an invocation fails), each with a fresh draw from the
\* PRNG of the runtime; invocation i of n > 1 has the given paths with _i
\* appended to the stem, the directory part and the extension unchanged,
\* and the one invocation of n = 1 has the given paths.
C20_GenerateInvocations ==
    [][Generating
       => LET g == Current.generate
              new == SubSeq(gen_log', Len(gen_log) + 1, Len(gen_log'))
              Drawn(ds) ==
                  /\ rng_seeds' = ds.state
                  /\ \A i \in DOMAIN new : new[i].seed = ds.seeds[i]
          IN  /\ Len(new) <= g.n_to_generate
              /\ Len(new) < g.n_to_generate => new # <<>> /\ new[Len(new)].status # "ok"
              /\ \A i \in DOMAIN new :
                    /\ new[i].node_file = PathOfGraph(g.nodefile_path, i - 1, g.n_to_generate)
                    /\ new[i].edge_file = PathOfGraph(g.edge_file_path, i - 1, g.n_to_generate)
              /\ Drawn(DrawSeeds(rng_seeds, Len(new)))]_vars

(***************************************************************************)
(* The observation part of TSVReader::readTo on its own: the files a -READ *)
(* names and the column indices it configures.                             *)
(***************************************************************************)
\* A node file of three columns.  "i\tt\tu\n1\ta\tx\n2\tb\tx\n"
NodeTsvWide ==
    <<"i", "\t", "t", "\t", "u", "\n", "1", "\t", "a", "\t", "x", "\n", "2", "\t", "b", "\t",
      "x", "\n">>

\* An edge file of two columns.  "s\td\n1\t2\n"
EdgeTsvNarrow == <<"s", "\t", "d", "\n", "1", "\t", "2", "\n">>

ReadFiles ==
    (<<"n">> :> NodeTsv) @@ (<<"w">> :> NodeTsvWide) @@ (<<"e">> :> EdgeTsv)
    @@ (<<"z">> :> EdgeTsvNarrow)

\* The Read_Instructions observed: up to two files of a kind, and indices
\* inside and outside the headers.
ReadInputs ==
    {[DefaultRead EXCEPT !.node_files = nf, !.edge_files = ef, !.node_name_index = ni,
                         !.node_type_indices = nt, !.start_node_index = si,
                         !.edge_type_indices = et] :
        nf \in {<<>>, <<<<"n">>>>, <<<<"w">>>>, <<<<"n">>, <<"w">>>>, <<<<"w">>, <<"n">>>>},
        ef \in {<<>>, <<<<"e">>>>, <<<<"z">>>>, <<<<"e">>, <<"z">>>>},
        ni \in {0, 2}, nt \in {<<1>>, <<1, 2>>}, si \in {0, 3}, et \in {<<2>>, <<0, 1>>}}

InitRead ==
    /\ RuntimeIdle
    /\ SamplerIdle
    /\ f_op = "observe"
    /\ f_model = EmptyM1 /\ f_scale = <<1, 1>>
    /\ f_in \in ReadInputs
    /\ f_pc = "start"
    /\ f_out = <<>>

\* The loops of TSVReader::readTo over the node files and the edge files
\* of f_in, on a new reader.
FObserve ==
    /\ f_op = "observe" /\ f_pc = "start"
    /\ f_out' = <<Observe(ReadFiles, f_in)>>
    /\ f_pc' = "done"
    /\ UNCHANGED <<f_op, f_model, f_scale, f_in, rt_vars, g_vars>>

NextRead == FObserve

SpecRead == InitRead /\ [][NextRead]_vars

(***************************************************************************)
(* Properties of the observation, under SpecRead.                          *)
(***************************************************************************)
Observed == f_op = "observe" /\ f_pc = "done"

HeaderArity(file) == Len(split_on_char(HeaderLine(ReadFiles[file])))

\* Some configured index is not a column of some file it applies to.
IndexBeyondHeader(rd) ==
    \/ \E k \in DOMAIN rd.node_files :
          \/ rd.node_name_index >= HeaderArity(rd.node_files[k])
          \/ \E j \in DOMAIN rd.node_type_indices :
                rd.node_type_indices[j] >= HeaderArity(rd.node_files[k])
    \/ \E k \in DOMAIN rd.edge_files :
          \/ rd.start_node_index >= HeaderArity(rd.edge_files[k])
          \/ rd.end_node_index >= HeaderArity(rd.edge_files[k])
          \/ \E j \in DOMAIN rd.edge_type_indices :
                rd.edge_type_indices[j] >= HeaderArity(rd.edge_files[k])

\* C21: a Read with a column index that is not a column of a file it
\* applies to fails, and has then observed no node and no edge: its reader
\* is as new.
C21_IndexErrorBeforeAnyRow ==
    Observed /\ IndexBeyondHeader(f_in) => ~f_out[1].ok /\ f_out[1].g = NewReader

(***************************************************************************)
(* Properties of the work distribution and the workers, under SpecGen.     *)
(***************************************************************************)
\* The threads of the edge type in work are being started.
Spawning == g_pc = "types" /\ g_pc' = "threads"

\* C22: the inclusive ranges handed to the workers of an edge type of 100
\* blocks or more are contiguous and pairwise disjoint, cover every block
\* index, and hold no index from the number of blocks on.
C22_RangesPartitionBlocks ==
    [][Spawning
       => LET B == Len(GenBlock)
              Handed(workers) ==
                  LET From(k) == workers[k].st.idx
                      To(k) == workers[k].st.workload_end
                  IN  /\ \A k \in DOMAIN workers : \A i \in From(k)..To(k) : i < B
                      /\ \A k \in DOMAIN workers : k > 1 => From(k) = To(k - 1) + 1
                      /\ \A k, l \in DOMAIN workers :
                            k # l => (From(k)..To(k)) \cap (From(l)..To(l)) = {}
                      /\ UNION {From(k)..To(k) : k \in DOMAIN workers} = 0..(B - 1)
          IN  Handed(g_workers')]_vars

(***************************************************************************)
(* The workers and write_lock (Generator.cpp): what a worker does from one *)
(* use of the lock to the next is one step; lock(), the write and unlock() *)
(* are steps of their own.  A buffer that fills in the middle of a block   *)
(* is written when the worker is through that block: what lies between     *)
(* touches only the worker's own buffer.                                   *)
(***************************************************************************)
MAX_NUM_DIGITS == 20

\* The first node id of the models below: ids of ten digits.
LongBase == Pow10(9)

\* The bound of the height of a tall block: its rows fill the buffer once.
LongRows == 1200

\* An edge type of MAX_ALLOWED_TYPE_LENGTH characters.
LongType == [k \in 1..MAX_ALLOWED_TYPE_LENGTH |-> "t"]

\* The number of blocks of the models below: the threaded path, with
\* ranges that end inside the block list for every worker count.
LockBlocks == MIN_THREADED_BLOCKS + 1

\* A block of one column over all rows, every cell with an edge.
TallBlock ==
    Edge_Block(IntR(LongBase), IntR(LongBase + 1), IntR(LongBase), IntR(LongBase + LongRows),
               <<1, 1>>)

\* The k-th block of one column and three rows.
ShortBlock(k) ==
    Edge_Block(IntR(LongBase), IntR(LongBase + 1), IntR(LongBase + 3 * (k - 1)),
               IntR(LongBase + 3 * k), <<1, 2>>)

LockModel(e_type, tall) ==
    [meta |-> Meta_Record(<<"g">>, (KeySCALE :> DefaultScale)),
     nodes |-> <<Node_Record(IntR(LongBase), IntR(LongBase + LongRows), <<"a">>)>>,
     edges |-> <<Edge_Record(e_type,
                             [k \in 1..LockBlocks |->
                                 IF k \in tall THEN TallBlock ELSE ShortBlock(k)])>>]

\* The calls, as <<model, hardware concurrency>>: a tall block in the first
\* range, for one worker and for three; a tall block in each range of two
\* workers; and an edge type that is too long.
LockRuns ==
    {<<LockModel(LongType, {1}), 2>>, <<LockModel(LongType, {1}), 4>>,
     <<LockModel(LongType, {1, 71}), 3>>, <<ModelLongType, 2>>}

\* The indices of the workers of these calls.
LockWorkers == UNION {1..NThreads(run[2]) : run \in LockRuns}

InitLock ==
    /\ RuntimeIdle
    /\ FunctionsIdle
    /\ \E run \in LockRuns : g_data = run[1] /\ g_hw = run[2]
    /\ g_seed = 0
    /\ g_pc = "nodes"
    /\ g_node_rows = <<>> /\ g_edge_rows = <<>> /\ g_block_data = <<>> /\ g_et = 0
    /\ g_rdm_gen = 0 /\ g_workers = <<>> /\ g_lock = 0

\* Worker k runs to its next use of the lock: the buffer is close to full,
\* or the workload is completed with rows left in the buffer.
LockFill(k) ==
    /\ g_pc = "threads"
    /\ g_workers[k].pc = "run"
    /\ LET Filled(w) ==
               IF w.ub
                 THEN /\ g_workers' = [g_workers EXCEPT ![k] = [st |-> w, pc |-> "undefined"]]
                      /\ g_pc' = "undefined"
                 ELSE /\ g_workers' =
                             [g_workers EXCEPT
                                ![k] = [st |-> w,
                                        pc |-> IF w.written # <<>> THEN "lock"
                                               ELSE IF w.buffer_pos > 0 THEN "final_lock"
                                               ELSE "done"]]
                      /\ UNCHANGED g_pc
       IN  Filled(WorkerToWrite(g_workers[k].st, GenBlock, GenType, Len(GenBlock) + 1))
    /\ UNCHANGED <<g_lock, g_data, g_seed, g_hw, g_node_rows, g_edge_rows, g_block_data, g_et,
                   g_rdm_gen, rt_vars, f_vars>>

\* A lock() that returns although another worker holds the lock.
LockAcquireUnguarded(k) ==
    /\ g_pc = "threads"
    /\ g_workers[k].pc \in {"lock", "final_lock"}
    /\ g_lock' = k
    /\ g_workers' =
           [g_workers EXCEPT ![k].pc = IF @ = "lock" THEN "write" ELSE "final_write"]
    /\ UNCHANGED <<g_data, g_seed, g_hw, g_pc, g_node_rows, g_edge_rows, g_block_data, g_et,
                   g_rdm_gen, rt_vars, f_vars>>

\* w_lock.lock() returns: no worker holds the lock.
LockAcquire(k) ==
    /\ g_pc = "threads"
    /\ g_workers[k].pc \in {"lock", "final_lock"}
    /\ g_lock = 0
    /\ g_lock' = k
    /\ g_workers' =
           [g_workers EXCEPT ![k].pc = IF @ = "lock" THEN "write" ELSE "final_write"]
    /\ UNCHANGED <<g_data, g_seed, g_hw, g_pc, g_node_rows, g_edge_rows, g_block_data, g_et,
                   g_rdm_gen, rt_vars, f_vars>>

\* output.write(buffer, buffer_pos - buffer) of the full buffer, or of
\* what is left in it when the workload is completed.
LockWrite(k) ==
    /\ g_pc = "threads"
    /\ g_workers[k].pc \in {"write", "final_write"}
    /\ g_edge_rows' =
           g_edge_rows \o (IF g_workers[k].pc = "write" THEN g_workers[k].st.written
                           ELSE WorkerFinalRows(g_workers[k].st))
    /\ g_workers' =
           [g_workers EXCEPT ![k].st.written = <<>>,
                             ![k].pc = IF @ = "write" THEN "unlock" ELSE "final_unlock"]
    /\ UNCHANGED <<g_lock, g_data, g_seed, g_hw, g_pc, g_node_rows, g_block_data, g_et,
                   g_rdm_gen, rt_vars, f_vars>>

\* w_lock.unlock(): the worker goes on with its workload, or returns.
LockRelease(k) ==
    /\ g_pc = "threads"
    /\ g_workers[k].pc \in {"unlock", "final_unlock"}
    /\ g_lock' = 0
    /\ g_workers' = [g_workers EXCEPT ![k].pc = IF @ = "unlock" THEN "run" ELSE "done"]
    /\ UNCHANGED <<g_data, g_seed, g_hw, g_pc, g_node_rows, g_edge_rows, g_block_data, g_et,
                   g_rdm_gen, rt_vars, f_vars>>

\* Worker k is at work between two uses of the lock: LockFill(k) is enabled.
Runs(k) == g_pc = "threads" /\ k \in DOMAIN g_workers /\ g_workers[k].pc = "run"

NextLock ==
    \/ GenNodes
    \/ GenConvert
    \/ GenSpawn
    \/ \E k \in DOMAIN g_workers : LockFill(k)
    \/ \E k \in DOMAIN g_workers : LockAcquire(k)
    \/ \E k \in DOMAIN g_workers : LockWrite(k)
    \/ \E k \in DOMAIN g_workers : LockRelease(k)
    \/ GenJoin
    \/ GenClose

\* Every thread that can take a step takes one in the end; a thread that
\* waits in lock() returns from it once the lock stays free.  The condition
\* on LockFill(k) is WF_vars(LockFill(k)) with its ENABLED written out: the
\* step is enabled exactly when Runs(k), and it ends Runs(k).
SpecLock ==
    /\ InitLock
    /\ [][NextLock]_vars
    /\ \A k \in LockWorkers :
          /\ []<>(~Runs(k))
          /\ WF_vars(k \in DOMAIN g_workers
                     /\ (LockAcquire(k) \/ LockWrite(k) \/ LockRelease(k)))
    /\ WF_vars(GenNodes \/ GenConvert \/ GenSpawn \/ GenJoin \/ GenClose)

(***************************************************************************)
(* Properties of the workers and write_lock, under SpecLock.               *)
(***************************************************************************)
\* The workers between lock() and unlock().
InWrite ==
    {k \in DOMAIN g_workers :
        g_workers[k].pc \in {"write", "final_write", "unlock", "final_unlock"}}

Waiting(k) == k \in DOMAIN g_workers /\ g_workers[k].pc \in {"lock", "final_lock"}

\* C23: at most one worker is between lock() and unlock() at any time, and
\* it is the one that holds write_lock; the edge file grows only by a
\* write of the holder, which holds the lock before and after it; a lock
\* that is held is released; and a worker that waits for the lock gets it.
C23_WritesUnderTheLock ==
    /\ [](Cardinality(InWrite) <= 1 /\ InWrite = {k \in DOMAIN g_workers : g_lock = k})
    /\ [][g_edge_rows' # g_edge_rows => g_lock # 0 /\ g_lock' = g_lock /\ LockWrite(g_lock)]_vars
    /\ \A k \in LockWorkers : (g_lock = k) ~> (g_lock = 0)
    /\ \A k \in LockWorkers : Waiting(k) ~> (g_lock = k)

\* A worker is writing its full buffer while another waits for the lock.
C23_Witness ==
    \E k, l \in DOMAIN g_workers : g_workers[k].pc = "write" /\ Waiting(l)

\* The rows worker k has in its buffer or is about to write.
RowsHeld(k) == Range(g_workers[k].st.buffer) \cup Range(g_workers[k].st.written)

\* Edges are being sampled, or have been.
Sampling == g_pc \in {"types", "threads", "done"} \/ g_workers # <<>> \/ g_edge_rows # <<>>

\* C27: no write position of a worker is ever past the end of the buffer,
\* and between two rows it is below the position at which the buffer is
\* written and reset; a row has at most 2 * 20 digits, 64 characters of
\* the edge type and 3 separators; and no edge is sampled for a model with
\* an edge type of more than 64 characters.
C27_WritePositionInsideBuffer ==
    /\ \A k \in DOMAIN g_workers :
          /\ g_workers[k].st.peak <= MAX_BUFFER_SIZE
          /\ g_workers[k].st.buffer_pos < MAX_BUFFER_SIZE - MAX_BUFFER_SAFETY_MARGIN - 1
          /\ \A row \in RowsHeld(k) :
                RowBytes(row[1], row[2], row[3])
                  <= 2 * MAX_NUM_DIGITS + MAX_ALLOWED_TYPE_LENGTH + 3
    /\ Sampling
       => \A i \in DOMAIN g_data.edges :
             Len(g_data.edges[i].edge_type) <= MAX_ALLOWED_TYPE_LENGTH

\* A worker has filled its buffer up to the position at which it is written.
C27_Witness ==
    \E k \in DOMAIN g_workers :
        /\ g_workers[k].st.peak >= MAX_BUFFER_SIZE - MAX_BUFFER_SAFETY_MARGIN - 1
        /\ g_workers[k].pc = "lock"

(***************************************************************************)
(* The loop of multithread_generate_graph over one block, draw by draw.    *)
(***************************************************************************)
\* The blocks picked from, as converted: of one cell, of one column, of one
\* row and of several of both, with the probability 1 and below.
PickRecords ==
    {Record(4, 4 + dx, 7, 7 + dy, prob) :
        dx \in 0..2, dy \in 0..2, prob \in {<<1, 1>>, <<1, 2>>}}
    \cup {Record(4, 5, SizeMax - 2, SizeMax, <<1, 1>>)}

Width(rec) == (rec.endX - rec.startX) + 1

Height(rec) == (rec.endY - rec.startY) + 1

InitPick ==
    /\ RuntimeIdle
    /\ SamplerIdle
    /\ f_op = "pick"
    /\ f_model = EmptyM1 /\ f_scale = <<1, 1>>
    /\ f_in \in [rec : PickRecords, e_type : {<<"e">>}, seed : 0..(RngMod - 1)]
    /\ f_pc = "start"
    /\ f_out = <<>>

\* The worker reaches the block: offset_x = 0 and idx_y = startY.
FPickStart ==
    /\ f_op = "pick" /\ f_pc = "start"
    /\ f_out' = <<PickAt(WorkerInit(0, 0, f_in.seed), 0, f_in.rec.startY)>>
    /\ f_pc' = "loop"
    /\ UNCHANGED <<f_op, f_model, f_scale, f_in, rt_vars, g_vars>>

\* One turn of while (true) { ... }.  The turns are counted up to one per
\* cell and two more.
FPickStep ==
    /\ f_op = "pick" /\ f_pc = "loop"
    /\ Len(f_out) <= Width(f_in.rec) * Height(f_in.rec) + 2
    /\ LET Turned(p) ==
               /\ f_out' = Append(f_out, p)
               /\ f_pc' = IF p.done THEN "done" ELSE "loop"
       IN  Turned(PickStep(f_out[Len(f_out)], f_in.rec, f_in.e_type))
    /\ UNCHANGED <<f_op, f_model, f_scale, f_in, rt_vars, g_vars>>

NextPick == FPickStart \/ FPickStep

\* The worker goes on turning while the loop is not left.
SpecPick == InitPick /\ [][NextPick]_vars /\ WF_vars(NextPick)

(***************************************************************************)
(* Properties of the loop over one block, under SpecPick.                  *)
(***************************************************************************)
\* The row-major position of the sampler at f_out[i] is before the one at
\* f_out[j]: in a row above, or in the same row and a column to the left.
PosBefore(i, j) ==
    \/ f_out[i].idx_y < f_out[j].idx_y
    \/ f_out[i].idx_y = f_out[j].idx_y /\ f_out[i].offset_x < f_out[j].offset_x

\* The rows emitted up to f_out[i].
Emitted(i) == f_out[i].w.buffer \o f_out[i].w.written

\* C28: in one block the row-major position grows with every draw; no more
\* edges are emitted than the block has cells, and none twice; and the
\* loop over the block is left.
C28_PositionGrowsAndLoopEnds ==
    /\ [](f_op = "pick"
          => /\ \A i \in DOMAIN f_out : i > 1 => PosBefore(i - 1, i)
             /\ \A i \in DOMAIN f_out :
                   /\ Len(Emitted(i)) <= Width(f_in.rec) * Height(f_in.rec)
                   /\ \A a, b \in DOMAIN Emitted(i) : a # b => Emitted(i)[a] # Emitted(i)[b])
    /\ (f_op = "pick") ~> (f_pc = "done")

(***************************************************************************)
(* The blocks of a pair of node types and the node intervals of the pair,  *)
(* under SpecCompile.                                                      *)
(***************************************************************************)
\* The node interval process assigns to the container at position i.
AssignedRegion(work, i) ==
    [startID |-> IntR(OuterId(work, i)), endID |-> IntR(OuterId(work, i) + work[i].node_count)]

\* Every block of every pair of containers lies in the intervals of the pair.
BlocksInsideRegions(g, work) ==
    \A e_type \in g.edge_colors, x \in DOMAIN work, y \in DOMAIN work :
        HasOutDegree(work[x], e_type) /\ HasInDegree(work[y], e_type)
        => \A k \in DOMAIN PairBlocks(g, work, e_type, x, y) :
              /\ Within(PairBlocks(g, work, e_type, x, y)[k].startX,
                        PairBlocks(g, work, e_type, x, y)[k].endX, AssignedRegion(work, x))
              /\ Within(PairBlocks(g, work, e_type, x, y)[k].startY,
                        PairBlocks(g, work, e_type, x, y)[k].endY, AssignedRegion(work, y))

\* The compilations of the rows in that give the model data.
CompilationsOf(in, data) ==
    {c \in [seed : CompileSeeds,
            nt_order : Orders(ContainerTypes(ReaderOf(in))),
            ed_order : Orders(ReaderOf(in).edge_colors)] :
        data = process(ReaderOf(in), EmptyMap, c.seed, c.nt_order, c.ed_order)}

\* C24: in every compiled model, each block emitted for (e, tX, tY) has its
\* X interval inside the node interval assigned to tX and its Y interval
\* inside the node interval assigned to tY, also when an edge endpoint was
\* never observed as a node and is typed as the empty string.
C24_BlocksInsideTypeIntervals ==
    Compiled
    => \A c \in CompilationsOf(f_in, f_model) :
          BlocksInsideRegions(ReaderOf(f_in),
                              WorkContainer(ReaderOf(f_in), c.nt_order, c.ed_order, c.seed))

\* C25: compile is a function of the observed nodes and edges and the seed
\* alone: every compilation of the same rows with the same seed gives the
\* same model, whatever order the hash containers iterate the node types and
\* the edge types in.
C25_CompileIsAFunction ==
    Compiled
    => \A c \in CompilationsOf(f_in, f_model) :
          \A nt_order \in Orders(ContainerTypes(ReaderOf(f_in))),
             ed_order \in Orders(ReaderOf(f_in).edge_colors) :
              process(ReaderOf(f_in), EmptyMap, c.seed, nt_order, ed_order) = f_model

(***************************************************************************)
(* inplace_replaceAll and the replaces of tokenize_s1, on their own: f_in  *)
(* is a script text and the template/replace pairs of an -Execute.         *)
(***************************************************************************)
MaxTextLen == 3

ReplaceTexts == UNION {[1..n -> {"a", "b"}] : n \in 0..MaxTextLen}

\* Templates: empty, one character, two characters.
ReplaceTemplates == {<<>>, <<"a">>, <<"a", "b">>, <<"a", "a">>}

\* Replacements: empty, the template itself, texts that hold the template.
ReplaceTargets == {<<>>, <<"a">>, <<"b">>, <<"a", "a">>, <<"b", "a", "b">>}

MaxPairs == 2

ReplaceInputs ==
    [text : ReplaceTexts,
     replaces : UNION {[1..n -> ReplaceTemplates \X ReplaceTargets] : n \in 0..MaxPairs}]

InitReplace ==
    /\ RuntimeIdle
    /\ SamplerIdle
    /\ f_op = "replace" /\ f_model = EmptyM1 /\ f_scale = <<1, 1>>
    /\ f_in \in ReplaceInputs
    /\ f_pc = "start"
    /\ f_out = <<>>

\* The loop of tokenize_s1 over replaces: inplace_replaceAll of every pair,
\* in order, on input.
FReplace ==
    /\ f_op = "replace" /\ f_pc = "start"
    /\ f_out' = <<ApplyReplaces(f_in.replaces, f_in.text)>>
    /\ f_pc' = "done"
    /\ UNCHANGED <<f_op, f_model, f_scale, f_in, rt_vars, g_vars>>

NextReplace == FReplace

SpecReplace == InitReplace /\ [][NextReplace]_vars

\* The text with every occurrence of search, found from left to right and
\* none overlapping an earlier one, replaced once; what is put in is not
\* looked at again.
RECURSIVE ReplacedOnce(_, _, _)
ReplacedOnce(search, replace, text) ==
    IF text = <<>> THEN <<>>
    ELSE IF search # <<>> /\ Len(search) <= Len(text) /\ SubSeq(text, 1, Len(search)) = search
      THEN replace \o ReplacedOnce(search, replace, DropFirst(text, Len(search)))
    ELSE <<Head(text)>> \o ReplacedOnce(search, replace, Tail(text))

\* The pairs one after another, each on the result of the one before.
RECURSIVE ReplacedInOrder(_, _)
ReplacedInOrder(replaces, text) ==
    IF replaces = <<>> THEN text
    ELSE ReplacedInOrder(Tail(replaces), ReplacedOnce(Head(replaces)[1], Head(replaces)[2], text))

ReplaceDone == f_op = "replace" /\ f_pc = "done"

EmptyTemplate(in) == \E k \in DOMAIN in.replaces : in.replaces[k][1] = <<>>

\* C26: for every template/replace pair and every text, inplace_replaceAll
\* terminates, also when the template is a part of the replacement and
\* when it is empty; with templates that are not empty its result is the
\* text with each left-to-right non-overlapping occurrence replaced once,
\* and tokenize_s1 applies the pairs in the given order, each on the result
\* of the one before.
C26_ReplaceAllTerminates ==
    ReplaceDone
    => /\ f_out[1].ok
       /\ ~EmptyTemplate(f_in) => f_out[1].text = ReplacedInOrder(f_in.replaces, f_in.text)

(***************************************************************************)
(* The instructions that replace the active model, under Spec.             *)
(***************************************************************************)
\* C29: -Generate, -Save, -Seed and -Help leave the active model unchanged:
\* after any of them the active model (name, meta values, node records,
\* edge records) equals the model before it; only -Read, -Load and -Scale
\* replace the active model.
C29_OnlyReadLoadScaleReplace ==
    [][/\ IGenerate \/ ISave \/ ISeed \/ IHelp => active_model' = active_model
       /\ active_model' # active_model => IRead \/ ILoad \/ IScale]_vars

(***************************************************************************)
(* Scripts that do not tokenize or parse, under Spec.                      *)
(***************************************************************************)
\* tokenize_s1 or parse_s1_file raises an error on the script text.
ScriptFails(text, replaces) ==
    LET Failed(t) ==
            t.status = "throw" \/ (t.status = "ok" /\ parse_s1_file(t.tokens).status = "throw")
    IN  Failed(tokenize_s1(text, replaces))

\* The next instruction is an -Execute of a script that does not parse.
AtFailingScript ==
    /\ status = "running"
    /\ instruction_counter < Len(instructions)
    /\ Current.type = "IExecute"
    /\ Current.execute.scriptfile_path \in DOMAIN fs
    /\ ScriptFails(fs[Current.execute.scriptfile_path], Current.execute.replace_templates)

\* C30: a script is spliced or started only as a whole.  A step at an
\* -Execute whose script does not tokenize or parse ends the run with the
\* error of the script, and leaves the queue, the cursor, the counters, the
\* files and the active model as they were: none of the instructions of the
\* script is in the queue.  The instructions before the -Execute stay run:
\* a step only adds to what has been run.  After the error nothing runs; a
\* run whose command-line script fails has an empty queue and has run
\* nothing.
C30_ScriptsAsAWhole ==
    [][/\ AtFailingScript
          => /\ status' = "error" /\ error' = "script"
             /\ instructions' = instructions
             /\ instruction_counter' = instruction_counter
             /\ script_counter' = script_counter
             /\ fs' = fs /\ active_model' = active_model
       /\ IsPrefix(trace, trace')
       /\ status = "error"
          => /\ trace' = trace /\ instructions' = instructions
             /\ error = "script" /\ trace = <<>> => instructions = <<>>]_vars

\* -Execute c -Save q: the -Help of c has run, then b does not parse; the
\* queue holds the instructions of c and none of b.
C30_Witness ==
    /\ status = "error" /\ error = "script"
    /\ TypesOf(trace) = <<"IExecute", "IHelp", "IExecute">>
    /\ TypesOf(instructions) = <<"IExecute", "IHelp", "IExecute", "ISeed", "ISave">>
    /\ instruction_counter = 2 /\ script_counter = 1

====
